---- MODULE Spec2Model ----
(***************************************************************************)
(* Memory disambiguation subsystem: the load/store queue (lsq.py), the    *)
(* predictors (predictor.py), and the reorder buffer and                  *)
(* three-stage pipeline driver (pipeline.py), as state machines.          *)
(*                                                                         *)
(* Python objects are records.  Instruction objects live in `heap`, a     *)
(* sequence indexed by object identity; the ROB holds identities, so two  *)
(* ROB slots can alias one object exactly as two Python references do.    *)
(* None is the integer -1 (sequence numbers, indices, addresses and data  *)
(* of the model are all >= 0); an empty ROB slot is identity 0 and an     *)
(* empty LSQ slot is the record NoEntry.                                  *)
(***************************************************************************)
EXTENDS Integers, Sequences, FiniteSets, TLC

VARIABLES pipe, heap, stream, sq, sr, sp, simp, mshr, banks, now, sb, llsc,
          fence, atom, last

vars == <<pipe, heap, stream, sq, sr, sp, simp, mshr, banks, now, sb, llsc,
          fence, atom, last>>

\* The structures of mlp.py with their driver's cycle, and those of
\* synchronization.py.
mlpVars == <<mshr, banks, now>>

syncVars == <<sb, llsc, fence, atom>>

None == -1

----------------------------------------------------------------------------
(* Bounds of the model *)

RobCap == 3
LsqCap == 2
MaxSeq == 4
MaxPredictions == 2
MaxCycle == 4
MaxStream == 2
SsitSize == 4
MaxStoreSets == 2
TableSize == 2
MshrEntries == 2
MaxMshrCalls == 3
MaxNow == 3
MaxBankAccesses == 2
MaxLatency == 2
SbCap == 2
MaxSbStores == 3

\* The configuration of the memory-level-parallelism scenario.
NumBanks == 4
LineSize == 64

\* The addresses reserved by load_link.
LlscAddrs == {0, 4, 8}

----------------------------------------------------------------------------
(* Inputs: the instructions a caller hands to the pipeline.  Register 0   *)
(* is the base register, register 1 carries data.                         *)

NumRegs == 2

InstrPool ==
  { [pc |-> 0,  instr_type |-> "ALU",   dst_reg |-> 1,    src_regs |-> <<>>,     immediate |-> 1],
    [pc |-> 4,  instr_type |-> "STORE", dst_reg |-> None, src_regs |-> <<0, 1>>, immediate |-> 0],
    [pc |-> 4,  instr_type |-> "STORE", dst_reg |-> None, src_regs |-> <<0, 1>>, immediate |-> 2],
    [pc |-> 8,  instr_type |-> "LOAD",  dst_reg |-> 1,    src_regs |-> <<0>>,    immediate |-> 0],
    [pc |-> 8,  instr_type |-> "LOAD",  dst_reg |-> None, src_regs |-> <<0>>,    immediate |-> 4] }

PCs == { t.pc : t \in InstrPool }

----------------------------------------------------------------------------
(* lsq.py *)

NoEntry ==
  [seq_num |-> None, pc |-> None, op_type |-> "NONE", size |-> 0,
   address |-> None, data |-> None, address_valid |-> FALSE,
   data_valid |-> FALSE, speculative |-> FALSE, completed |-> FALSE,
   committed |-> FALSE]

LSQEntry(seq_num, pc, op_type, size) ==
  [seq_num |-> seq_num, pc |-> pc, op_type |-> op_type, size |-> size,
   address |-> None, data |-> None, address_valid |-> FALSE,
   data_valid |-> FALSE, speculative |-> FALSE, completed |-> FALSE,
   committed |-> FALSE]

LoadStoreQueue(capacity) ==
  [capacity |-> capacity,
   entries  |-> [i \in 0..(capacity - 1) |-> NoEntry],
   head |-> 0, tail |-> 0, size |-> 0]

LsqIsFull(l) == l.size >= l.capacity

LsqIsEmpty(l) == l.size = 0

\* allocate: [q |-> the queue afterwards, idx |-> the index or None]
LsqAllocate(l, seq_num, pc, op_type, size) ==
  IF LsqIsFull(l)
  THEN [q |-> l, idx |-> None]
  ELSE [q |-> [l EXCEPT !.entries[l.tail] = LSQEntry(seq_num, pc, op_type, size),
                        !.tail = (l.tail + 1) % l.capacity,
                        !.size = l.size + 1],
        idx |-> l.tail]

LsqSlotHeld(l, idx) ==
  /\ 0 <= idx
  /\ idx < l.capacity
  /\ l.entries[idx] # NoEntry

LsqUpdateAddress(l, idx, address) ==
  IF LsqSlotHeld(l, idx)
  THEN [l EXCEPT !.entries[idx].address = address,
                 !.entries[idx].address_valid = TRUE]
  ELSE l

LsqUpdateData(l, idx, data) ==
  IF LsqSlotHeld(l, idx) /\ l.entries[idx].op_type = "STORE"
  THEN [l EXCEPT !.entries[idx].data = data,
                 !.entries[idx].data_valid = TRUE]
  ELSE l

AddressesOverlapExact(addr1, size1, addr2, size2) == addr1 = addr2

AddressesOverlap(addr1, size1, addr2, size2) ==
  LET end1 == addr1 + size1
      end2 == addr2 + size2
  IN  ~(end1 <= addr2 \/ end2 <= addr1)

\* A check_dependency loop body that passes over stores of unknown address.
DepStepResolvedOnly(l, idx, load_addr, load_size, acc) ==
  LET entry == l.entries[idx] IN
  IF /\ entry # NoEntry
     /\ entry.op_type \in {"STORE", "ATOMIC"}
     /\ entry.address_valid
     /\ AddressesOverlap(entry.address, entry.size, load_addr, load_size)
  THEN IF /\ entry.data_valid
          /\ entry.address = load_addr
          /\ entry.size >= load_size
       THEN [latest |-> idx, can_forward |-> TRUE, forward_data |-> entry.data]
       ELSE [latest |-> idx, can_forward |-> FALSE, forward_data |-> None]
  ELSE acc

\* A check_dependency loop body in which a store of unknown address does not
\* cancel the forwarding found so far.
DepStepKeepForward(l, idx, load_addr, load_size, acc) ==
  LET entry == l.entries[idx] IN
  IF entry # NoEntry /\ entry.op_type \in {"STORE", "ATOMIC"}
  THEN IF entry.address_valid
       THEN IF AddressesOverlap(entry.address, entry.size, load_addr, load_size)
            THEN IF /\ entry.data_valid
                    /\ entry.address = load_addr
                    /\ entry.size >= load_size
                 THEN [latest |-> idx, can_forward |-> TRUE, forward_data |-> entry.data]
                 ELSE [latest |-> idx, can_forward |-> FALSE, forward_data |-> None]
            ELSE acc
       ELSE [latest |-> idx, can_forward |-> acc.can_forward,
             forward_data |-> acc.forward_data]
  ELSE acc

\* One iteration of check_dependency's while loop on slot idx.
DepStep(l, idx, load_addr, load_size, acc) ==
  LET entry == l.entries[idx] IN
  IF entry # NoEntry /\ entry.op_type \in {"STORE", "ATOMIC"}
  THEN IF entry.address_valid
       THEN IF AddressesOverlap(entry.address, entry.size, load_addr, load_size)
            THEN IF /\ entry.data_valid
                    /\ entry.address = load_addr
                    /\ entry.size >= load_size
                 THEN [latest |-> idx, can_forward |-> TRUE, forward_data |-> entry.data]
                 ELSE [latest |-> idx, can_forward |-> FALSE, forward_data |-> None]
            ELSE acc
       ELSE [latest |-> idx, can_forward |-> FALSE, forward_data |-> None]
  ELSE acc

RECURSIVE DepScan(_, _, _, _)
DepScan(l, idx, load_idx, acc) ==
  IF idx = load_idx
  THEN acc
  ELSE DepScan(l, (idx + 1) % l.capacity, load_idx,
               DepStep(l, idx, l.entries[load_idx].address,
                       l.entries[load_idx].size, acc))

\* check_dependency: (has_conflict, forwarding_idx, forwarding_data)
CheckDependency(l, load_idx) ==
  IF l.entries[load_idx] = NoEntry \/ ~l.entries[load_idx].address_valid
  THEN [has_conflict |-> FALSE, fwd_idx |-> None, fwd_data |-> None]
  ELSE LET acc == DepScan(l, l.head, load_idx,
                          [latest |-> None, can_forward |-> FALSE,
                           forward_data |-> None])
       IN  [has_conflict |-> acc.latest # None,
            fwd_idx      |-> IF acc.can_forward THEN acc.latest ELSE None,
            fwd_data     |-> acc.forward_data]

LsqMarkSpeculative(l, idx) ==
  IF LsqSlotHeld(l, idx) THEN [l EXCEPT !.entries[idx].speculative = TRUE] ELSE l

LsqMarkCompleted(l, idx) ==
  IF LsqSlotHeld(l, idx) THEN [l EXCEPT !.entries[idx].completed = TRUE] ELSE l

\* commit_head: [q |-> the queue afterwards, entry |-> the entry or NoEntry]
LsqCommitHead(l) ==
  IF LsqIsEmpty(l)
  THEN [q |-> l, entry |-> NoEntry]
  ELSE [q |-> [l EXCEPT !.entries[l.head] = NoEntry,
                        !.head = (l.head + 1) % l.capacity,
                        !.size = l.size - 1],
        entry |-> IF l.entries[l.head] # NoEntry
                  THEN [l.entries[l.head] EXCEPT !.committed = TRUE]
                  ELSE NoEntry]

\* The inner while loop of squash_from: clear the slots from idx up to tail.
RECURSIVE LsqClearToTail(_, _)
LsqClearToTail(l, idx) ==
  IF idx = l.tail
  THEN [q |-> l, idx |-> idx]
  ELSE LsqClearToTail(
         IF l.entries[idx] # NoEntry
         THEN [l EXCEPT !.entries[idx] = NoEntry, !.size = @ - 1]
         ELSE l,
         (idx + 1) % l.capacity)

\* The for loop of squash_from: n iterations are left, idx is the slot looked at.
RECURSIVE LsqSquashScan(_, _, _, _)
LsqSquashScan(l, idx, n, seq_num) ==
  IF n = 0
  THEN l
  ELSE IF l.entries[idx] # NoEntry /\ l.entries[idx].seq_num >= seq_num
       THEN LET r == LsqClearToTail(l, idx)
            IN  [r.q EXCEPT !.tail = r.idx]
       ELSE LsqSquashScan(l, (idx + 1) % l.capacity, n - 1, seq_num)

\* A squash that drops only the youngest entry when it is >= seq_num.
LsqSquashFromPopOne(l, seq_num) ==
  LET y == (l.tail + l.capacity - 1) % l.capacity IN
  IF l.size > 0 /\ l.entries[y] # NoEntry /\ l.entries[y].seq_num >= seq_num
  THEN [l EXCEPT !.entries[y] = NoEntry, !.size = @ - 1, !.tail = y]
  ELSE l

LsqSquashFrom(l, seq_num) == LsqSquashScan(l, l.head, l.size, seq_num)

----------------------------------------------------------------------------
(* predictor.py: StoreSetPredictor.  The SSIT dict is a function on the   *)
(* SSIT indices with None for a missing key (the code reads it only with  *)
(* .get), the LFST dict a function on the set ids with None for a missing *)
(* key, and the confidence defaultdict a function on the PCs.             *)

StoreSetPredictor(ssit_size, max_store_sets) ==
  [ssit_size |-> ssit_size,
   max_store_sets |-> max_store_sets,
   ssit |-> [i \in 0..(ssit_size - 1) |-> None],
   lfst |-> [k \in 0..(max_store_sets - 1) |-> None],
   confidence |-> [c \in PCs |-> 2],
   free_store_sets |-> 0..(max_store_sets - 1),
   predictions |-> 0,
   correct_predictions |-> 0,
   violations |-> 0]

\* _get_ssit_index: (pc >> 2) % ssit_size
GetSsitIndex(p, pc) == (pc \div 4) % p.ssit_size

\* A predict_load that speculates on confidence only above 2.
PredictLoadStrictConfidence(p, load_pc) ==
  LET p1 == [p EXCEPT !.predictions = @ + 1]
      store_set_id == p.ssit[GetSsitIndex(p, load_pc)]
      conf == p.confidence[load_pc]
  IN  IF store_set_id = None \/ conf > 2
      THEN [p |-> p1, can_speculate |-> TRUE, wait_seq |-> None]
      ELSE IF p.lfst[store_set_id] # None
           THEN [p |-> p1, can_speculate |-> FALSE, wait_seq |-> p.lfst[store_set_id]]
           ELSE [p |-> p1, can_speculate |-> TRUE, wait_seq |-> None]

\* predict_load: [p |-> predictor afterwards, can_speculate, wait_seq]
PredictLoad(p, load_pc) ==
  LET p1 == [p EXCEPT !.predictions = @ + 1]
      store_set_id == p.ssit[GetSsitIndex(p, load_pc)]
      conf == p.confidence[load_pc]
  IN  IF store_set_id = None \/ conf >= 2
      THEN [p |-> p1, can_speculate |-> TRUE, wait_seq |-> None]
      ELSE IF p.lfst[store_set_id] # None
           THEN [p |-> p1, can_speculate |-> FALSE, wait_seq |-> p.lfst[store_set_id]]
           ELSE [p |-> p1, can_speculate |-> TRUE, wait_seq |-> None]

\* A register_store that opens set 0 for a store PC without a set.
RegisterStoreImplicitSet(p, store_pc, seq_num) ==
  LET store_set_id == p.ssit[GetSsitIndex(p, store_pc)] IN
  IF store_set_id # None
  THEN [p EXCEPT !.lfst[store_set_id] = seq_num]
  ELSE [p EXCEPT !.ssit[GetSsitIndex(p, store_pc)] = 0, !.lfst[0] = seq_num]

\* A register_store that keeps the entry its set already has.
RegisterStoreKeepFirst(p, store_pc, seq_num) ==
  LET store_set_id == p.ssit[GetSsitIndex(p, store_pc)] IN
  IF store_set_id # None /\ p.lfst[store_set_id] = None
  THEN [p EXCEPT !.lfst[store_set_id] = seq_num]
  ELSE p

RegisterStore(p, store_pc, seq_num) ==
  LET store_set_id == p.ssit[GetSsitIndex(p, store_pc)] IN
  IF store_set_id # None
  THEN [p EXCEPT !.lfst[store_set_id] = seq_num]
  ELSE p

ClearStore(p, store_pc) ==
  LET store_set_id == p.ssit[GetSsitIndex(p, store_pc)] IN
  IF store_set_id # None /\ p.lfst[store_set_id] # None
  THEN [p EXCEPT !.lfst[store_set_id] = None]
  ELSE p

\* An eviction loop that takes any id, in the LFST or not.
EvictableSetsAny(p) == 0..(p.max_store_sets - 1)

\* The eviction loop of _allocate_store_set: the lowest id absent from LFST.
EvictableSets(p) == { k \in 0..(p.max_store_sets - 1) : p.lfst[k] = None }

MinOf(S) == CHOOSE x \in S : \A y \in S : x <= y

\* _allocate_store_set: the set of outcomes [p, id]; set.pop() removes an
\* arbitrary element of the free pool.
AllocateStoreSet(p) ==
  IF p.free_store_sets # {}
  THEN { [p |-> [p EXCEPT !.free_store_sets = @ \ {k}], id |-> k] :
           k \in p.free_store_sets }
  ELSE IF EvictableSets(p) # {}
       THEN LET set_id == MinOf(EvictableSets(p)) IN
            { [p |-> [p EXCEPT !.ssit = [i \in DOMAIN p.ssit |->
                                           IF p.ssit[i] = set_id THEN None
                                           ELSE p.ssit[i]]],
               id |-> set_id] }
       ELSE { [p |-> p, id |-> None] }

\* A confidence decrement without the floor at 0.
ReduceConfidenceNoFloor(p, load_pc) ==
  [p EXCEPT !.confidence[load_pc] = @ - 1]

\* The last statement of report_violation: reduce the load's confidence.
ReduceConfidence(p, load_pc) ==
  IF p.confidence[load_pc] > 0
  THEN [p EXCEPT !.confidence[load_pc] = @ - 1]
  ELSE p

\* A report_violation whose merge rewrites only the store's own SSIT entry.
ReportViolationMergeOne(p, load_pc, store_pc) ==
  LET p1 == [p EXCEPT !.violations = @ + 1]
      load_idx == GetSsitIndex(p, load_pc)
      store_idx == GetSsitIndex(p, store_pc)
      load_set == p.ssit[load_idx]
      store_set == p.ssit[store_idx]
  IN  IF load_set = None /\ store_set = None
      THEN { ReduceConfidence(
               IF a.id # None
               THEN [a.p EXCEPT !.ssit = [i \in DOMAIN a.p.ssit |->
                                            IF i = load_idx \/ i = store_idx
                                            THEN a.id ELSE a.p.ssit[i]]]
               ELSE a.p,
               load_pc) : a \in AllocateStoreSet(p1) }
      ELSE IF load_set = None
      THEN { ReduceConfidence([p1 EXCEPT !.ssit[load_idx] = store_set], load_pc) }
      ELSE IF store_set = None
      THEN { ReduceConfidence([p1 EXCEPT !.ssit[store_idx] = load_set], load_pc) }
      ELSE IF load_set # store_set
      THEN { ReduceConfidence(
               [p1 EXCEPT !.ssit[store_idx] = load_set,
                          !.free_store_sets = @ \cup {store_set}],
               load_pc) }
      ELSE { ReduceConfidence(p1, load_pc) }

\* A report_violation whose merge moves the load's SSIT entry to the store's
\* set and frees nothing.
ReportViolationMoveLoad(p, load_pc, store_pc) ==
  LET p1 == [p EXCEPT !.violations = @ + 1]
      load_idx == GetSsitIndex(p, load_pc)
      store_idx == GetSsitIndex(p, store_pc)
      load_set == p.ssit[load_idx]
      store_set == p.ssit[store_idx]
  IN  IF load_set = None /\ store_set = None
      THEN { ReduceConfidence(
               IF a.id # None
               THEN [a.p EXCEPT !.ssit = [i \in DOMAIN a.p.ssit |->
                                            IF i = load_idx \/ i = store_idx
                                            THEN a.id ELSE a.p.ssit[i]]]
               ELSE a.p,
               load_pc) : a \in AllocateStoreSet(p1) }
      ELSE IF load_set = None
      THEN { ReduceConfidence([p1 EXCEPT !.ssit[load_idx] = store_set], load_pc) }
      ELSE IF store_set = None
      THEN { ReduceConfidence([p1 EXCEPT !.ssit[store_idx] = load_set], load_pc) }
      ELSE IF load_set # store_set
      THEN { ReduceConfidence(
               [p1 EXCEPT !.ssit[load_idx] = store_set],
               load_pc) }
      ELSE { ReduceConfidence(p1, load_pc) }

\* report_violation: the set of predictors it can leave.
ReportViolation(p, load_pc, store_pc) ==
  LET p1 == [p EXCEPT !.violations = @ + 1]
      load_idx == GetSsitIndex(p, load_pc)
      store_idx == GetSsitIndex(p, store_pc)
      load_set == p.ssit[load_idx]
      store_set == p.ssit[store_idx]
  IN  IF load_set = None /\ store_set = None
      THEN { ReduceConfidence(
               IF a.id # None
               THEN [a.p EXCEPT !.ssit = [i \in DOMAIN a.p.ssit |->
                                            IF i = load_idx \/ i = store_idx
                                            THEN a.id ELSE a.p.ssit[i]]]
               ELSE a.p,
               load_pc) : a \in AllocateStoreSet(p1) }
      ELSE IF load_set = None
      THEN { ReduceConfidence([p1 EXCEPT !.ssit[load_idx] = store_set], load_pc) }
      ELSE IF store_set = None
      THEN { ReduceConfidence([p1 EXCEPT !.ssit[store_idx] = load_set], load_pc) }
      ELSE IF load_set # store_set
      THEN { ReduceConfidence(
               [p1 EXCEPT !.ssit = [i \in DOMAIN p1.ssit |->
                                      IF p1.ssit[i] = store_set THEN load_set
                                      ELSE p1.ssit[i]],
                          !.free_store_sets = @ \cup {store_set}],
               load_pc) }
      ELSE { ReduceConfidence(p1, load_pc) }

ReportCorrectSpeculation(p, load_pc) ==
  LET p1 == [p EXCEPT !.correct_predictions = @ + 1] IN
  IF p1.confidence[load_pc] < 3
  THEN [p1 EXCEPT !.confidence[load_pc] = @ + 1]
  ELSE p1

\* reset_stats
ResetStats(p) ==
  [p EXCEPT !.predictions = 0, !.correct_predictions = 0, !.violations = 0]

----------------------------------------------------------------------------
(* predictor.py: SimplePredictor.  The counters defaultdict is a function *)
(* on the table indices.                                                   *)

SimplePredictor(table_size) ==
  [table_size |-> table_size,
   counters |-> [i \in 0..(table_size - 1) |-> 3],
   predictions |-> 0,
   violations |-> 0]

\* _get_index: (pc >> 2) % table_size
GetIndex(s, pc) == (pc \div 4) % s.table_size

\* should_speculate: [s |-> predictor afterwards, ret]
ShouldSpeculate(s, load_pc) ==
  [s |-> [s EXCEPT !.predictions = @ + 1],
   ret |-> s.counters[GetIndex(s, load_pc)] >= 2]

SimpleReportViolation(s, load_pc) ==
  LET s1 == [s EXCEPT !.violations = @ + 1]
      idx == GetIndex(s, load_pc)
  IN  IF s1.counters[idx] > 0
      THEN [s1 EXCEPT !.counters[idx] = @ - 1]
      ELSE s1

SimpleReportCorrectSpeculation(s, load_pc) ==
  LET idx == GetIndex(s, load_pc) IN
  IF s.counters[idx] < 3
  THEN [s EXCEPT !.counters[idx] = @ + 1]
  ELSE s

----------------------------------------------------------------------------
(* pipeline.py: Instruction and ReorderBuffer *)

LOAD == "LOAD"
STORE == "STORE"
ALU == "ALU"

\* Instruction.__init__ on the caller's operands t.
Instruction(t) ==
  [pc |-> t.pc, instr_type |-> t.instr_type, dst_reg |-> t.dst_reg,
   src_regs |-> t.src_regs, immediate |-> t.immediate,
   seq_num |-> None, lsq_idx |-> None, address |-> None, data |-> None,
   issued |-> FALSE, executed |-> FALSE, completed |-> FALSE,
   committed |-> FALSE, speculative |-> FALSE]

ReorderBuffer(capacity) ==
  [capacity |-> capacity,
   entries  |-> [i \in 0..(capacity - 1) |-> 0],
   head |-> 0, tail |-> 0, size |-> 0]

RobIsFull(r) == r.size >= r.capacity

RobIsEmpty(r) == r.size = 0

\* allocate: [r |-> the buffer afterwards, idx |-> the index or None]
RobAllocate(r, id) ==
  IF RobIsFull(r)
  THEN [r |-> r, idx |-> None]
  ELSE [r |-> [r EXCEPT !.entries[r.tail] = id,
                        !.tail = (r.tail + 1) % r.capacity,
                        !.size = r.size + 1],
        idx |-> r.tail]

\* A commit_head that does not look at the completed bit.
RobCommitHeadAny(r, h) ==
  IF RobIsEmpty(r) \/ r.entries[r.head] = 0
  THEN [r |-> r, h |-> h, id |-> 0]
  ELSE [r |-> [r EXCEPT !.entries[r.head] = 0,
                        !.head = (r.head + 1) % r.capacity,
                        !.size = r.size - 1],
        h |-> [h EXCEPT ![r.entries[r.head]].committed = TRUE],
        id |-> r.entries[r.head]]

\* commit_head: [r, h |-> buffer and objects afterwards, id |-> the
\* instruction returned, 0 for None]
RobCommitHead(r, h) ==
  IF RobIsEmpty(r)
  THEN [r |-> r, h |-> h, id |-> 0]
  ELSE LET instr == r.entries[r.head] IN
       IF instr # 0 /\ h[instr].completed
       THEN [r |-> [r EXCEPT !.entries[r.head] = 0,
                             !.head = (r.head + 1) % r.capacity,
                             !.size = r.size - 1],
             h |-> [h EXCEPT ![instr].committed = TRUE],
             id |-> instr]
       ELSE [r |-> r, h |-> h, id |-> 0]

RECURSIVE RobClearToTail(_, _)
RobClearToTail(r, idx) ==
  IF idx = r.tail
  THEN [r |-> r, idx |-> idx]
  ELSE RobClearToTail(
         IF r.entries[idx] # 0
         THEN [r EXCEPT !.size = @ - 1, !.entries[idx] = 0]
         ELSE r,
         (idx + 1) % r.capacity)

RECURSIVE RobSquashScan(_, _, _, _, _)
RobSquashScan(r, h, idx, n, seq_num) ==
  IF n = 0
  THEN r
  ELSE IF r.entries[idx] # 0 /\ h[r.entries[idx]].seq_num >= seq_num
       THEN LET c == RobClearToTail(r, idx)
            IN  [c.r EXCEPT !.tail = c.idx]
       ELSE RobSquashScan(r, h, (idx + 1) % r.capacity, n - 1, seq_num)

RobSquashFrom(r, h, seq_num) == RobSquashScan(r, h, r.head, r.size, seq_num)

----------------------------------------------------------------------------
(* pipeline.py: Pipeline.  memory is the dict as a function on the keys   *)
(* written so far.  mem_log is a history field: the identity of the       *)
(* store behind every `self.memory[...] = ...` executed so far, and       *)
(* commit_log the sequence number of every instruction rob.commit_head    *)
(* handed to commit_instruction so far.                                   *)

Pipeline(rob_size, lsq_size) ==
  [rob |-> ReorderBuffer(rob_size),
   lsq |-> LoadStoreQueue(lsq_size),
   predictor |-> StoreSetPredictor(SsitSize, MaxStoreSets),
   registers |-> [r \in 0..(NumRegs - 1) |-> 0],
   memory |-> [a \in {} |-> 0],
   next_seq_num |-> 0,
   cycle |-> 0,
   pc |-> 0,
   instructions_committed |-> 0,
   loads_executed |-> 0,
   stores_executed |-> 0,
   speculation_violations |-> 0,
   forwarding_events |-> 0,
   mem_log |-> <<>>,
   commit_log |-> <<>>]

\* self.memory.get(address, 0)
MemGet(memory, address) ==
  IF address \in DOMAIN memory THEN memory[address] ELSE 0

\* self.memory[address] = data
MemPut(memory, address, data) ==
  [a \in (DOMAIN memory) \cup {address} |->
     IF a = address THEN data ELSE memory[a]]

\* self.registers[dst_reg] = value, under `if instr.dst_reg is not None`
WriteDst(registers, dst_reg, value) ==
  IF dst_reg # None THEN [registers EXCEPT ![dst_reg] = value] ELSE registers

RECURSIVE SumRegs(_, _)
SumRegs(registers, src_regs) ==
  IF src_regs = <<>> THEN 0
  ELSE registers[Head(src_regs)] + SumRegs(registers, Tail(src_regs))

\* issue_instruction(instr): [pl, h |-> pipeline and objects afterwards, ret]
IssueInstruction(pl, h, id) ==
  IF RobIsFull(pl.rob)
  THEN [pl |-> pl, h |-> h, ret |-> FALSE]
  ELSE
    LET ra  == RobAllocate(pl.rob, id)
        seq == pl.next_seq_num
        h1  == [h EXCEPT ![id].seq_num = seq]
        pl1 == [pl EXCEPT !.rob = ra.r, !.next_seq_num = seq + 1]
    IN
    IF ra.idx = None
    THEN [pl |-> [pl EXCEPT !.rob = ra.r], h |-> h, ret |-> FALSE]
    ELSE IF h[id].instr_type \in {LOAD, STORE}
    THEN LET la == LsqAllocate(pl.lsq, seq, h[id].pc, h[id].instr_type, 4) IN
         IF la.idx = None
         THEN [pl |-> pl1, h |-> h1, ret |-> FALSE]
         ELSE [pl |-> [pl1 EXCEPT
                         !.lsq = la.q,
                         !.predictor =
                            IF h[id].instr_type = STORE
                            THEN RegisterStore(pl.predictor, h[id].pc, seq)
                            ELSE pl.predictor],
               h  |-> [h1 EXCEPT ![id].lsq_idx = la.idx, ![id].issued = TRUE],
               ret |-> TRUE]
    ELSE [pl |-> pl1, h |-> [h1 EXCEPT ![id].issued = TRUE], ret |-> TRUE]

\* _execute_load
ExecuteLoad(pl, h, id) ==
  LET instr     == h[id]
      base_addr == IF Len(instr.src_regs) > 0
                   THEN pl.registers[instr.src_regs[1]] ELSE 0
      address   == base_addr + instr.immediate
      h1        == [h EXCEPT ![id].address = address]
      lsq1      == IF instr.lsq_idx # None
                   THEN LsqUpdateAddress(pl.lsq, instr.lsq_idx, address)
                   ELSE pl.lsq
      dep       == CheckDependency(lsq1, instr.lsq_idx)
      pr        == PredictLoad(pl.predictor, instr.pc)
      data      == MemGet(pl.memory, address)
  IN
  IF dep.fwd_data # None
  THEN [pl |-> [pl EXCEPT !.lsq = lsq1,
                          !.registers = WriteDst(@, instr.dst_reg, dep.fwd_data),
                          !.forwarding_events = @ + 1,
                          !.loads_executed = @ + 1],
        h  |-> [h1 EXCEPT ![id].data = dep.fwd_data,
                          ![id].executed = TRUE,
                          ![id].completed = TRUE],
        ret |-> TRUE]
  ELSE IF ~pr.can_speculate \/ dep.has_conflict
  THEN [pl |-> [pl EXCEPT !.lsq = lsq1, !.predictor = pr.p],
        h  |-> h1,
        ret |-> FALSE]
  ELSE [pl |-> [pl EXCEPT
                  !.lsq = IF instr.lsq_idx # None
                          THEN LsqMarkCompleted(
                                 LsqMarkSpeculative(lsq1, instr.lsq_idx),
                                 instr.lsq_idx)
                          ELSE lsq1,
                  !.predictor = pr.p,
                  !.registers = WriteDst(@, instr.dst_reg, data),
                  !.loads_executed = @ + 1],
        h  |-> [h1 EXCEPT ![id].data = data,
                          ![id].speculative = TRUE,
                          ![id].executed = TRUE,
                          ![id].completed = TRUE],
        ret |-> TRUE]

\* An _execute_store that also writes the memory model.
ExecuteStoreWriteThrough(pl, h, id) ==
  LET instr     == h[id]
      address   == (IF Len(instr.src_regs) > 0
                    THEN pl.registers[instr.src_regs[1]] ELSE 0) + instr.immediate
      data      == pl.registers[IF Len(instr.src_regs) > 1
                                THEN instr.src_regs[2] ELSE 0]
  IN
  [pl |-> [pl EXCEPT
             !.lsq = IF instr.lsq_idx # None
                     THEN LsqMarkCompleted(
                            LsqUpdateData(
                              LsqUpdateAddress(@, instr.lsq_idx, address),
                              instr.lsq_idx, data),
                            instr.lsq_idx)
                     ELSE @,
             !.memory = MemPut(@, address, data),
             !.mem_log = Append(@, id),
             !.stores_executed = @ + 1],
   h  |-> [h EXCEPT ![id].address = address,
                    ![id].data = data,
                    ![id].executed = TRUE,
                    ![id].completed = TRUE],
   ret |-> TRUE]

\* _execute_store
ExecuteStore(pl, h, id) ==
  LET instr     == h[id]
      base_addr == IF Len(instr.src_regs) > 0
                   THEN pl.registers[instr.src_regs[1]] ELSE 0
      address   == base_addr + instr.immediate
      data_reg  == IF Len(instr.src_regs) > 1 THEN instr.src_regs[2] ELSE 0
      data      == pl.registers[data_reg]
  IN
  [pl |-> [pl EXCEPT
             !.lsq = IF instr.lsq_idx # None
                     THEN LsqMarkCompleted(
                            LsqUpdateData(
                              LsqUpdateAddress(@, instr.lsq_idx, address),
                              instr.lsq_idx, data),
                            instr.lsq_idx)
                     ELSE @,
             !.stores_executed = @ + 1],
   h  |-> [h EXCEPT ![id].address = address,
                    ![id].data = data,
                    ![id].executed = TRUE,
                    ![id].completed = TRUE],
   ret |-> TRUE]

\* execute_instruction(instr)
ExecuteInstruction(pl, h, id) ==
  IF ~h[id].issued \/ h[id].executed
  THEN [pl |-> pl, h |-> h, ret |-> FALSE]
  ELSE IF h[id].instr_type = ALU
  THEN [pl |-> [pl EXCEPT !.registers =
                   WriteDst(@, h[id].dst_reg,
                            SumRegs(pl.registers, h[id].src_regs) + h[id].immediate)],
        h  |-> [h EXCEPT ![id].executed = TRUE, ![id].completed = TRUE],
        ret |-> TRUE]
  ELSE IF h[id].instr_type = LOAD
  THEN ExecuteLoad(pl, h, id)
  ELSE IF h[id].instr_type = STORE
  THEN ExecuteStore(pl, h, id)
  ELSE [pl |-> pl, h |-> h, ret |-> FALSE]

\* A _validate_load that reports every forwardable store as a violation.
ValidateLoadAnyForward(pl, h, id) ==
  IF h[id].lsq_idx = None
  THEN FALSE
  ELSE LET dep == CheckDependency(pl.lsq, h[id].lsq_idx) IN
       dep.fwd_data # None

\* _validate_load: TRUE when a violation is detected
ValidateLoad(pl, h, id) ==
  IF h[id].lsq_idx = None
  THEN FALSE
  ELSE LET dep == CheckDependency(pl.lsq, h[id].lsq_idx) IN
       dep.fwd_data # None /\ h[id].data # dep.fwd_data

\* _recover_from_violation(violating_instr): the set of pipelines it can
\* leave (report_violation may pop any free store set).
RecoverFromViolation(pl, h, id) ==
  LET instr == h[id]
      dep   == CheckDependency(pl.lsq, instr.lsq_idx)
      preds == IF /\ instr.lsq_idx # None
                  /\ dep.has_conflict
                  /\ dep.fwd_idx # None
                  /\ pl.lsq.entries[dep.fwd_idx] # NoEntry
               THEN ReportViolation(pl.predictor, instr.pc,
                                    pl.lsq.entries[dep.fwd_idx].pc)
               ELSE { pl.predictor }
  IN  { [pl EXCEPT !.predictor = p,
                   !.rob = RobSquashFrom(pl.rob, h, instr.seq_num),
                   !.lsq = LsqSquashFrom(pl.lsq, instr.seq_num),
                   !.pc  = instr.pc] : p \in preds }

\* commit_instruction(): the set of outcomes [pl, h, ret, popped]; ret is
\* the instruction returned (0 for None), popped the one rob.commit_head
\* returned.
CommitInstruction(pl, h) ==
  LET c == RobCommitHead(pl.rob, h) IN
  IF c.id = 0
  THEN { [pl |-> pl, h |-> h, ret |-> 0, popped |-> 0] }
  ELSE
    LET instr == c.h[c.id]
        pl0   == [pl EXCEPT !.rob = c.r,
                            !.commit_log = Append(@, instr.seq_num)]
    IN
    IF /\ instr.instr_type = LOAD
       /\ instr.speculative
       /\ ValidateLoad(pl0, c.h, c.id)
    THEN { [pl |-> q, h |-> c.h, ret |-> 0, popped |-> c.id] :
             q \in RecoverFromViolation(
                     [pl0 EXCEPT !.speculation_violations = @ + 1], c.h, c.id) }
    ELSE
      LET pl1 == IF instr.instr_type = LOAD /\ instr.speculative
                 THEN [pl0 EXCEPT !.predictor =
                          ReportCorrectSpeculation(@, instr.pc)]
                 ELSE pl0
          pl2 == IF instr.instr_type = STORE
                 THEN [pl1 EXCEPT
                         !.memory = MemPut(@, instr.address, instr.data),
                         !.mem_log = Append(@, c.id),
                         !.predictor = ClearStore(@, instr.pc)]
                 ELSE pl1
      IN  { [pl |-> [pl2 EXCEPT !.instructions_committed = @ + 1],
             h |-> c.h, ret |-> c.id, popped |-> c.id] }

\* cycle_step(instruction_stream): the set of outcomes [pl, h, stream, ret];
\* ret is what commit_instruction returned.
CycleStep(pl, h, s) ==
  { IF s # <<>> /\ ~RobIsFull(o.pl.rob)
    THEN LET i == IssueInstruction(o.pl, o.h, Head(s)) IN
         [pl |-> i.pl, h |-> i.h,
          stream |-> IF i.ret THEN Tail(s) ELSE s,
          ret |-> o.ret]
    ELSE [pl |-> o.pl, h |-> o.h, stream |-> s, ret |-> o.ret]
    : o \in CommitInstruction([pl EXCEPT !.cycle = @ + 1], h) }

----------------------------------------------------------------------------
(* mlp.py: MSHREntry and MSHRFile.  An empty slot of entries is NoMshr.    *)

PENDING == "PENDING"
COMPLETED == "COMPLETED"

NoMshr ==
  [address |-> None, line_address |-> None, state |-> "NONE",
   waiting_loads |-> <<>>, waiting_stores |-> <<>>,
   is_prefetch |-> FALSE, issue_cycle |-> 0, complete_cycle |-> 0]

MSHREntry(address, line_address) ==
  [address |-> address, line_address |-> line_address, state |-> PENDING,
   waiting_loads |-> <<>>, waiting_stores |-> <<>>,
   is_prefetch |-> FALSE, issue_cycle |-> 0, complete_cycle |-> 0]

AddWaiter(e, seq_num, is_store) ==
  IF is_store
  THEN [e EXCEPT !.waiting_stores = Append(@, seq_num)]
  ELSE [e EXCEPT !.waiting_loads = Append(@, seq_num)]

MSHRFile(num_entries, line_size) ==
  [num_entries |-> num_entries,
   line_size |-> line_size,
   entries |-> [i \in 0..(num_entries - 1) |-> NoMshr],
   total_misses |-> 0,
   merged_requests |-> 0,
   concurrent_misses_peak |-> 0]

\* _get_line_address: (address // line_size) * line_size
GetLineAddress(m, address) == (address \div m.line_size) * m.line_size

\* A lookup that passes over completed entries.
LookupPendingOnly(m, address) ==
  LET line_addr == GetLineAddress(m, address)
      hits == { i \in DOMAIN m.entries :
                  /\ m.entries[i] # NoMshr
                  /\ m.entries[i].line_address = line_addr
                  /\ m.entries[i].state = PENDING }
  IN  IF hits = {} THEN None ELSE MinOf(hits)

\* lookup: the first slot that holds the line of address, in any state.
Lookup(m, address) ==
  LET line_addr == GetLineAddress(m, address)
      hits == { i \in DOMAIN m.entries :
                  m.entries[i] # NoMshr /\ m.entries[i].line_address = line_addr }
  IN  IF hits = {} THEN None ELSE MinOf(hits)

GetActiveCount(m) == Cardinality({ i \in DOMAIN m.entries : m.entries[i] # NoMshr })

\* An allocate that counts a merged request as a miss too.
MshrAllocateCountsMerge(m, address, seq_num, is_store, is_prefetch, cycle) ==
  LET line_addr == GetLineAddress(m, address)
      idx == Lookup(m, address)
      free == { i \in DOMAIN m.entries : m.entries[i] = NoMshr }
  IN  IF idx # None
      THEN [m |-> [m EXCEPT !.entries[idx] = AddWaiter(@, seq_num, is_store),
                            !.merged_requests = @ + 1,
                            !.total_misses = @ + 1],
            ret |-> idx]
      ELSE IF free # {}
      THEN LET i == MinOf(free)
               new_entry == [AddWaiter(MSHREntry(address, line_addr), seq_num, is_store)
                               EXCEPT !.is_prefetch = is_prefetch,
                                      !.issue_cycle = cycle]
               m1 == [m EXCEPT !.entries[i] = new_entry,
                               !.total_misses = @ + 1]
               active == GetActiveCount(m1)
           IN  [m |-> [m1 EXCEPT !.concurrent_misses_peak =
                                    IF @ >= active THEN @ ELSE active],
                ret |-> i]
      ELSE [m |-> m, ret |-> None]

\* allocate: [m |-> file afterwards, ret |-> index or None]
MshrAllocate(m, address, seq_num, is_store, is_prefetch, cycle) ==
  LET line_addr == GetLineAddress(m, address)
      idx == Lookup(m, address)
      free == { i \in DOMAIN m.entries : m.entries[i] = NoMshr }
  IN  IF idx # None
      THEN [m |-> [m EXCEPT !.entries[idx] = AddWaiter(@, seq_num, is_store),
                            !.merged_requests = @ + 1],
            ret |-> idx]
      ELSE IF free # {}
      THEN LET i == MinOf(free)
               new_entry == [AddWaiter(MSHREntry(address, line_addr), seq_num, is_store)
                               EXCEPT !.is_prefetch = is_prefetch,
                                      !.issue_cycle = cycle]
               m1 == [m EXCEPT !.entries[i] = new_entry,
                               !.total_misses = @ + 1]
               active == GetActiveCount(m1)
           IN  [m |-> [m1 EXCEPT !.concurrent_misses_peak =
                                    IF @ >= active THEN @ ELSE active],
                ret |-> i]
      ELSE [m |-> m, ret |-> None]

\* complete: [m |-> file afterwards, ret |-> the completed entry or NoMshr]
MshrComplete(m, idx, cycle) ==
  IF 0 <= idx /\ idx < m.num_entries /\ m.entries[idx] # NoMshr
  THEN LET entry == [m.entries[idx] EXCEPT !.state = COMPLETED,
                                           !.complete_cycle = cycle]
       IN  [m |-> [m EXCEPT !.entries[idx] = entry], ret |-> entry]
  ELSE [m |-> m, ret |-> NoMshr]

\* A free that recomputes the peak from the entries still held.
MshrFreeRecountsPeak(m, idx) ==
  IF 0 <= idx /\ idx < m.num_entries
  THEN LET m1 == [m EXCEPT !.entries[idx] = NoMshr] IN
       [m1 EXCEPT !.concurrent_misses_peak = GetActiveCount(m1)]
  ELSE m

MshrFree(m, idx) ==
  IF 0 <= idx /\ idx < m.num_entries
  THEN [m EXCEPT !.entries[idx] = NoMshr]
  ELSE m

----------------------------------------------------------------------------
(* mlp.py: BankConflictDetector *)

BankConflictDetector(num_banks, line_size) ==
  [num_banks |-> num_banks,
   line_size |-> line_size,
   bank_busy |-> [i \in 0..(num_banks - 1) |-> FALSE],
   bank_ready_cycle |-> [i \in 0..(num_banks - 1) |-> 0],
   total_accesses |-> 0,
   bank_conflicts |-> 0]

\* _get_bank: (address // line_size) % num_banks
GetBank(b, address) == (address \div b.line_size) % b.num_banks

\* A can_access that still rejects in the bank's ready cycle.
CanAccessInclusive(b, address, current_cycle) ==
  LET b1 == [b EXCEPT !.total_accesses = @ + 1]
      bank == GetBank(b, address)
  IN  IF b1.bank_busy[bank] /\ b1.bank_ready_cycle[bank] >= current_cycle
      THEN [b |-> [b1 EXCEPT !.bank_conflicts = @ + 1], ret |-> FALSE]
      ELSE [b |-> b1, ret |-> TRUE]

\* can_access: [b |-> detector afterwards, ret]
CanAccess(b, address, current_cycle) ==
  LET b1 == [b EXCEPT !.total_accesses = @ + 1]
      bank == GetBank(b, address)
  IN  IF b1.bank_busy[bank] /\ b1.bank_ready_cycle[bank] > current_cycle
      THEN [b |-> [b1 EXCEPT !.bank_conflicts = @ + 1], ret |-> FALSE]
      ELSE [b |-> b1, ret |-> TRUE]

ReserveBank(b, address, current_cycle, latency) ==
  LET bank == GetBank(b, address) IN
  [b EXCEPT !.bank_busy[bank] = TRUE,
            !.bank_ready_cycle[bank] = current_cycle + latency]

UpdateCycle(b, current_cycle) ==
  [b EXCEPT !.bank_busy = [i \in DOMAIN b.bank_busy |->
                             IF b.bank_ready_cycle[i] <= current_cycle
                             THEN FALSE ELSE b.bank_busy[i]]]

----------------------------------------------------------------------------
(* synchronization.py: MemoryFence.  NoFence stands for the time before    *)
(* the fence object is constructed.                                        *)

FenceType == {"LFENCE", "SFENCE", "MFENCE"}

NoFence == [fence_type |-> "none", seq_num |-> None, completed |-> FALSE]

MemoryFence(fence_type, seq_num) ==
  [fence_type |-> fence_type, seq_num |-> seq_num, completed |-> FALSE]

CanComplete(f, older_loads_done, older_stores_done) ==
  IF f.fence_type = "LFENCE" THEN older_loads_done
  ELSE IF f.fence_type = "SFENCE" THEN older_stores_done
  ELSE IF f.fence_type = "MFENCE"
  THEN older_loads_done /\ older_stores_done
  ELSE FALSE

BlocksLoad(f, load_seq_num) ==
  IF load_seq_num <= f.seq_num THEN FALSE
  ELSE f.fence_type \in {"LFENCE", "MFENCE"}

BlocksStore(f, store_seq_num) ==
  IF store_seq_num <= f.seq_num THEN FALSE
  ELSE f.fence_type \in {"SFENCE", "MFENCE"}

----------------------------------------------------------------------------
(* synchronization.py: AtomicOperation.  op_type is any string; NoAtomic   *)
(* stands for the time before the object is constructed.                   *)

NoAtomic ==
  [op_type |-> "none", address |-> None, seq_num |-> None,
   old_value |-> None, new_value |-> None, expected_value |-> None,
   lock_acquired |-> FALSE, completed |-> FALSE, success |-> FALSE]

AtomicOperation(op_type, address, seq_num) ==
  [op_type |-> op_type, address |-> address, seq_num |-> seq_num,
   old_value |-> None, new_value |-> None, expected_value |-> None,
   lock_acquired |-> FALSE, completed |-> FALSE, success |-> FALSE]

\* An execute whose compare-and-swap writes without comparing.
AtomicExecuteBlindCas(a, memory_value, write_value, expected) ==
  LET a1 == [a EXCEPT !.old_value = memory_value] IN
  IF a.op_type \in {"SWAP", "CAS"}
  THEN [a |-> [a1 EXCEPT !.new_value = write_value, !.success = TRUE],
        success |-> TRUE, value |-> memory_value]
  ELSE IF a.op_type = "FADD"
  THEN [a |-> [a1 EXCEPT !.new_value = memory_value + write_value,
                         !.success = TRUE],
        success |-> TRUE, value |-> memory_value]
  ELSE [a |-> a1, success |-> FALSE, value |-> memory_value]

\* execute: [a |-> the object afterwards, success, value]
AtomicExecute(a, memory_value, write_value, expected) ==
  LET a1 == [a EXCEPT !.old_value = memory_value] IN
  IF a.op_type = "SWAP"
  THEN [a |-> [a1 EXCEPT !.new_value = write_value, !.success = TRUE],
        success |-> TRUE, value |-> memory_value]
  ELSE IF a.op_type = "CAS"
  THEN IF expected = None
       THEN [a |-> a1, success |-> FALSE, value |-> memory_value]
       ELSE IF memory_value = expected
       THEN [a |-> [a1 EXCEPT !.expected_value = expected,
                              !.new_value = write_value, !.success = TRUE],
             success |-> TRUE, value |-> memory_value]
       ELSE [a |-> [a1 EXCEPT !.expected_value = expected,
                              !.success = FALSE],
             success |-> FALSE, value |-> memory_value]
  ELSE IF a.op_type = "FADD"
  THEN [a |-> [a1 EXCEPT !.new_value = memory_value + write_value,
                         !.success = TRUE],
        success |-> TRUE, value |-> memory_value]
  ELSE [a |-> a1, success |-> FALSE, value |-> memory_value]

BlocksOperation(a, op_address, op_seq_num) ==
  IF op_seq_num <= a.seq_num THEN FALSE
  ELSE IF ~a.lock_acquired \/ a.completed THEN FALSE
  ELSE op_address = a.address

----------------------------------------------------------------------------
(* synchronization.py: StoreBuffer.  entries is the list of dicts.         *)

StoreBuffer(capacity) == [capacity |-> capacity, entries |-> <<>>]

AddStore(b, address, data, size, seq_num) ==
  [b EXCEPT !.entries = Append(@, [address |-> address, data |-> data,
                                   size |-> size, seq_num |-> seq_num,
                                   drained |-> FALSE])]

\* A forward_to_load that scans oldest first.
ForwardToLoadOldest(b, address, size) ==
  LET hits == { i \in 1..Len(b.entries) :
                  b.entries[i].address = address /\ b.entries[i].size >= size }
  IN  IF hits = {} THEN None
      ELSE b.entries[CHOOSE i \in hits : \A j \in hits : j >= i].data

\* forward_to_load: the data of the newest entry of that address whose size
\* is at least the load's, or None.
ForwardToLoad(b, address, size) ==
  LET hits == { i \in 1..Len(b.entries) :
                  b.entries[i].address = address /\ b.entries[i].size >= size }
  IN  IF hits = {} THEN None
      ELSE b.entries[CHOOSE i \in hits : \A j \in hits : j <= i].data

\* entries.pop(i)
PopAt(s, i) == [j \in 1..(Len(s) - 1) |-> IF j < i THEN s[j] ELSE s[j + 1]]

\* drain_oldest: [b |-> buffer afterwards, ret |-> the drained entry or None]
DrainOldest(b) ==
  LET live == { i \in 1..Len(b.entries) : ~b.entries[i].drained } IN
  IF live = {} THEN [b |-> b, ret |-> None]
  ELSE LET i == MinOf(live) IN
       [b |-> [b EXCEPT !.entries = PopAt(@, i)],
        ret |-> [b.entries[i] EXCEPT !.drained = TRUE]]

----------------------------------------------------------------------------
(* synchronization.py: LoadLinkStoreConditional.  reservations is a        *)
(* function on the addresses; None stands for an absent key.               *)

LoadLinkStoreConditional(addresses) ==
  [reservations |-> [a \in addresses |-> None]]

LoadLink(r, address, seq_num) ==
  [r EXCEPT !.reservations[address] = seq_num]

\* A store_conditional that succeeds and keeps the reservation.
StoreConditionalKeeps(r, address, seq_num) ==
  IF r.reservations[address] = None
  THEN [r |-> r, ret |-> FALSE]
  ELSE IF r.reservations[address] # seq_num
  THEN [r |-> r, ret |-> FALSE]
  ELSE [r |-> r, ret |-> TRUE]

\* store_conditional: [r |-> afterwards, ret]
StoreConditional(r, address, seq_num) ==
  IF r.reservations[address] = None
  THEN [r |-> r, ret |-> FALSE]
  ELSE IF r.reservations[address] # seq_num
  THEN [r |-> r, ret |-> FALSE]
  ELSE [r |-> [r EXCEPT !.reservations[address] = None], ret |-> TRUE]

InvalidateReservation(r, address) ==
  IF r.reservations[address] # None
  THEN [r EXCEPT !.reservations[address] = None]
  ELSE r

----------------------------------------------------------------------------
(* The pipeline driven through its stage calls *)

\* The structures of mlp.py and synchronization.py as constructed.
MlpInit ==
  /\ mshr = MSHRFile(MshrEntries, LineSize)
  /\ banks = BankConflictDetector(NumBanks, LineSize)
  /\ now = 0

SyncInit ==
  /\ sb = StoreBuffer(SbCap)
  /\ llsc = LoadLinkStoreConditional(LlscAddrs)
  /\ fence = NoFence
  /\ atom = NoAtomic

NoOp == [op |-> "init", id |-> 0, ret |-> 0]

Init ==
  /\ pipe = Pipeline(RobCap, LsqCap)
  /\ heap = <<>>
  /\ stream = <<>>
  /\ sq = LoadStoreQueue(LsqCap)
  /\ sr = ReorderBuffer(RobCap)
  /\ sp = StoreSetPredictor(SsitSize, MaxStoreSets)
  /\ simp = SimplePredictor(TableSize)
  /\ MlpInit
  /\ SyncInit
  /\ last = NoOp

\* The objects issue_instruction turned away: the caller retries them.
Rejected(h) == { i \in 1..Len(h) : ~h[i].issued }

\* issue_instruction on a fresh Instruction built from operands t
IssueNew(t) ==
  /\ pipe.next_seq_num < MaxSeq
  /\ Len(heap) < MaxSeq
  /\ LET id == Len(heap) + 1
         o  == IssueInstruction(pipe, Append(heap, Instruction(t)), id)
     IN  /\ pipe' = o.pl
         /\ heap' = o.h
         /\ last' = [op |-> "issue", id |-> id, ret |-> IF o.ret THEN 1 ELSE 0]
  /\ UNCHANGED <<stream, sq, sr, sp, simp, mlpVars, syncVars>>

\* issue_instruction again on an object it turned away
IssueRetry(id) ==
  /\ pipe.next_seq_num < MaxSeq
  /\ id \in Rejected(heap)
  /\ LET o == IssueInstruction(pipe, heap, id)
     IN  /\ pipe' = o.pl
         /\ heap' = o.h
         /\ last' = [op |-> "issue", id |-> id, ret |-> IF o.ret THEN 1 ELSE 0]
  /\ UNCHANGED <<stream, sq, sr, sp, simp, mlpVars, syncVars>>

InRob(r, id) == \E i \in 0..(r.capacity - 1) : r.entries[i] = id

\* execute_instruction on an in-flight instruction: issued, not yet
\* executed, held by the ROB
Execute(id) ==
  /\ id \in 1..Len(heap)
  /\ heap[id].issued /\ ~heap[id].executed
  /\ InRob(pipe.rob, id)
  /\ LET o == ExecuteInstruction(pipe, heap, id)
     IN  /\ o.pl.predictor.predictions <= MaxPredictions
         /\ pipe' = o.pl
         /\ heap' = o.h
         /\ last' = [op |-> "execute", id |-> id, ret |-> IF o.ret THEN 1 ELSE 0]
  /\ UNCHANGED <<stream, sq, sr, sp, simp, mlpVars, syncVars>>

\* commit_instruction
Commit ==
  /\ \E o \in CommitInstruction(pipe, heap) :
        /\ pipe' = o.pl
        /\ heap' = o.h
        /\ last' = [op |-> "commit", id |-> o.popped, ret |-> o.ret]
  /\ UNCHANGED <<stream, sq, sr, sp, simp, mlpVars, syncVars>>

Next ==
  \/ \E t \in InstrPool : IssueNew(t)
  \/ \E id \in 1..MaxSeq : IssueRetry(id)
  \/ \E id \in 1..MaxSeq : Execute(id)
  \/ Commit

Spec == Init /\ [][Next]_vars

----------------------------------------------------------------------------
(* Properties of the pipeline *)

Stores(h) == { j \in 1..Len(h) : h[j].instr_type = STORE }

Bytes(address, size) == address..(address + size - 1)

\* The stores accepted before load id in program order whose bytes meet the
\* load's bytes.
EarlierOverlappingStores(h, id) ==
  { j \in Stores(h) :
      /\ h[j].issued
      /\ h[j].seq_num < h[id].seq_num
      /\ h[j].address # None
      /\ Bytes(h[j].address, 4) \cap Bytes(h[id].address, 4) # {} }

Newest(h, S) == CHOOSE j \in S : \A k \in S : h[k].seq_num <= h[j].seq_num

ArchValue(pl, h, id) ==
  IF EarlierOverlappingStores(h, id) # {}
  THEN h[Newest(h, EarlierOverlappingStores(h, id))].data
  ELSE MemGet(pl.memory, h[id].address)

RECURSIVE RingSeqs(_, _, _)
RingSeqs(ring, seqOf, k) ==
  IF k = ring.capacity THEN <<>>
  ELSE LET idx == (ring.head + k) % ring.capacity IN
       (IF seqOf[idx] # None THEN <<seqOf[idx]>> ELSE <<>>)
         \o RingSeqs(ring, seqOf, k + 1)

StrictlyIncreasing(s) == \A i \in 1..(Len(s) - 1) : s[i] < s[i + 1]

RobSeqOf(r, h) ==
  [i \in 0..(r.capacity - 1) |->
     IF r.entries[i] # 0 THEN h[r.entries[i]].seq_num ELSE None]

LsqSeqOf(l) == [i \in 0..(l.capacity - 1) |-> l.entries[i].seq_num]

RobSeqs(r, h) == RingSeqs(r, RobSeqOf(r, h), 0)

LsqSeqs(l) == RingSeqs(l, LsqSeqOf(l), 0)

\* C2: the sequence numbers of the occupied ROB slots, and of the occupied
\* LSQ slots, read from head to tail are strictly increasing.
C2_SeqsIncreasing ==
  /\ StrictlyIncreasing(RobSeqs(pipe.rob, heap))
  /\ StrictlyIncreasing(LsqSeqs(pipe.lsq))

RECURSIVE Replay(_, _)
Replay(log, h) ==
  IF log = <<>> THEN [a \in {} |-> 0]
  ELSE LET j == log[Len(log)] IN
       MemPut(Replay(SubSeq(log, 1, Len(log) - 1), h), h[j].address, h[j].data)

Count(x, s) == Cardinality({ i \in 1..Len(s) : s[i] = x })

C4_CommitInOrder ==
  /\ StrictlyIncreasing(pipe.commit_log)
  /\ (last.op = "commit" /\ last.id # 0) => heap[last.id].completed
  /\ (last.op = "commit" /\ last.id = 0) =>
        \/ pipe.rob.size = 0
        \/ pipe.rob.entries[pipe.rob.head] = 0
        \/ ~heap[pipe.rob.entries[pipe.rob.head]].completed

\* C4 witness: after two commits, an incomplete head holds back a completed
\* younger instruction.
C4_Witness ==
  /\ Len(pipe.commit_log) >= 2
  /\ last.op = "commit" /\ last.id = 0
  /\ pipe.rob.size >= 2
  /\ pipe.rob.entries[pipe.rob.head] # 0
  /\ ~heap[pipe.rob.entries[pipe.rob.head]].completed
  /\ \E i \in 0..(pipe.rob.capacity - 1) :
        pipe.rob.entries[i] # 0 /\ heap[pipe.rob.entries[i]].completed

\* C8: an issue_instruction that returns False leaves the ROB, the LSQ,
\* next_seq_num and the predictor as they were.
C8_RejectedIssueChangesNothing ==
  [][(last'.op = "issue" /\ last'.ret = 0) =>
       /\ pipe'.rob = pipe.rob
       /\ pipe'.lsq = pipe.lsq
       /\ pipe'.next_seq_num = pipe.next_seq_num
       /\ pipe'.predictor = pipe.predictor]_vars

\* Execute or Commit can still do something.
CanProgress ==
  \/ RobCommitHead(pipe.rob, heap).id # 0
  \/ \E i \in 1..Len(heap) :
        /\ heap[i].issued /\ ~heap[i].executed
        /\ ExecuteInstruction(pipe, heap, i).ret

\* C10: the pipeline does not get stuck: when neither Execute (tried on
\* every issued, unexecuted instruction) nor Commit can do anything more,
\* every instruction issue_instruction accepted has been committed.
C10_NeverStuck ==
  ~CanProgress => \A i \in 1..Len(heap) : heap[i].issued => heap[i].committed

----------------------------------------------------------------------------
(* A LoadStoreQueue (sq) and a ReorderBuffer (sr) driven through their    *)
(* own methods.  The two objects share no state, so a run drives one of   *)
(* them: the queue while no Instruction exists, the buffer while the      *)
(* queue is untouched.                                                    *)

RingInit ==
  /\ pipe = Pipeline(RobCap, LsqCap)
  /\ heap = <<>>
  /\ stream = <<>>
  /\ sq = LoadStoreQueue(LsqCap)
  /\ sr = ReorderBuffer(RobCap)
  /\ sp = StoreSetPredictor(SsitSize, MaxStoreSets)
  /\ simp = SimplePredictor(TableSize)
  /\ MlpInit
  /\ SyncInit
  /\ last = NoOp

LsqRun == heap = <<>>

RobRun == sq = LoadStoreQueue(LsqCap) /\ last.op \notin {"lsq_allocate", "lsq_commit", "lsq_squash"}

\* lsq.allocate(seq_num, 4, STORE, 4)
SqAllocate(seq_num) ==
  /\ LsqRun
  /\ LET a == LsqAllocate(sq, seq_num, 4, STORE, 4)
     IN  /\ sq' = a.q
         /\ last' = [op |-> "lsq_allocate", id |-> seq_num, ret |-> a.idx]
  /\ UNCHANGED <<pipe, heap, stream, sr, sp, simp, mlpVars, syncVars>>

\* lsq.commit_head()
SqCommitHead ==
  /\ LsqRun
  /\ LET c == LsqCommitHead(sq)
     IN  /\ sq' = c.q
         /\ last' = [op |-> "lsq_commit", id |-> 0, ret |-> c.entry.seq_num]
  /\ UNCHANGED <<pipe, heap, stream, sr, sp, simp, mlpVars, syncVars>>

\* lsq.squash_from(seq_num)
SqSquashFrom(seq_num) ==
  /\ LsqRun
  /\ sq' = LsqSquashFrom(sq, seq_num)
  /\ last' = [op |-> "lsq_squash", id |-> seq_num, ret |-> 0]
  /\ UNCHANGED <<pipe, heap, stream, sr, sp, simp, mlpVars, syncVars>>

\* rob.allocate(instr) on a fresh Instruction that carries the next
\* sequence number
SrAllocate(t) ==
  /\ RobRun
  /\ Len(heap) < MaxSeq
  /\ LET id == Len(heap) + 1
         a  == RobAllocate(sr, id)
     IN  /\ heap' = Append(heap, [Instruction(t) EXCEPT !.seq_num = Len(heap)])
         /\ sr' = a.r
         /\ last' = [op |-> "rob_allocate", id |-> id, ret |-> a.idx]
  /\ UNCHANGED <<pipe, stream, sq, sp, simp, mlpVars, syncVars>>

\* the owner of the buffer completes an instruction: instr.completed = True
SrComplete(id) ==
  /\ RobRun
  /\ id \in 1..Len(heap)
  /\ ~heap[id].completed
  /\ heap' = [heap EXCEPT ![id].completed = TRUE]
  /\ last' = [op |-> "rob_complete", id |-> id, ret |-> 0]
  /\ UNCHANGED <<pipe, stream, sq, sr, sp, simp, mlpVars, syncVars>>

\* rob.commit_head()
SrCommitHead ==
  /\ RobRun
  /\ LET c == RobCommitHead(sr, heap)
     IN  /\ sr' = c.r
         /\ heap' = c.h
         /\ last' = [op |-> "rob_commit", id |-> c.id, ret |-> c.id]
  /\ UNCHANGED <<pipe, stream, sq, sp, simp, mlpVars, syncVars>>

\* rob.squash_from(seq_num)
SrSquashFrom(seq_num) ==
  /\ RobRun
  /\ heap # <<>>
  /\ sr' = RobSquashFrom(sr, heap, seq_num)
  /\ last' = [op |-> "rob_squash", id |-> seq_num, ret |-> 0]
  /\ UNCHANGED <<pipe, heap, stream, sq, sp, simp, mlpVars, syncVars>>

RingNext ==
  \/ \E n \in 0..(MaxSeq - 1) : SqAllocate(n)
  \/ SqCommitHead
  \/ \E n \in 0..MaxSeq : SqSquashFrom(n)
  \/ \E t \in { x \in InstrPool : x.instr_type = ALU } : SrAllocate(t)
  \/ \E id \in 1..MaxSeq : SrComplete(id)
  \/ SrCommitHead
  \/ \E n \in 0..MaxSeq : SrSquashFrom(n)

SpecRing == RingInit /\ [][RingNext]_vars

Below(s, n) == SelectSeq(s, LAMBDA x : x < n)

\* What squash_from(n) is to do to a ring whose sequence numbers, read from
\* head, are `before`.
SquashedAsSpecified(ring, before, ring2, after, n) ==
  /\ after = Below(before, n)
  /\ ring2.size = ring.size - (Len(before) - Len(Below(before, n)))
  /\ ring2.tail = (ring.head + Len(Below(before, n))) % ring.capacity
  /\ ring2.head = ring.head

\* The ring holds its entries in the size slots that start at head.
Contiguous(ring, seqOf) ==
  \A k \in 0..(ring.capacity - 1) :
     (seqOf[(ring.head + k) % ring.capacity] # None) <=> (k < ring.size)

\* C6: on a queue or buffer whose entries are in increasing sequence order,
\* squash_from(n) removes exactly the entries with sequence number >= n,
\* lowers size by the number removed and sets tail just after the youngest
\* survivor.
C6_SquashRemovesTail ==
  [][/\ (/\ last'.op = "lsq_squash"
         /\ Contiguous(sq, LsqSeqOf(sq))
         /\ StrictlyIncreasing(LsqSeqs(sq)))
          => SquashedAsSpecified(sq, LsqSeqs(sq), sq', LsqSeqs(sq'), last'.id)
     /\ (/\ last'.op = "rob_squash"
         /\ Contiguous(sr, RobSeqOf(sr, heap))
         /\ StrictlyIncreasing(RobSeqs(sr, heap)))
          => SquashedAsSpecified(sr, RobSeqs(sr, heap), sr',
                                 RobSeqs(sr', heap'), last'.id)]_vars

----------------------------------------------------------------------------
(* The pipeline with _recover_from_violation also called on a load that   *)
(* is in the ROB.                                                          *)

RecoverCall(id) ==
  /\ id \in 1..Len(heap)
  /\ InRob(pipe.rob, id)
  /\ heap[id].instr_type = LOAD
  /\ \E q \in RecoverFromViolation(pipe, heap, id) : pipe' = q
  /\ last' = [op |-> "recover", id |-> id, ret |-> 0]
  /\ UNCHANGED <<heap, stream, sq, sr, sp, simp, mlpVars, syncVars>>

RecoverNext ==
  \/ \E t \in InstrPool : IssueNew(t)
  \/ \E id \in 1..MaxSeq : IssueRetry(id)
  \/ \E id \in 1..MaxSeq : Execute(id)
  \/ Commit
  \/ \E id \in 1..MaxSeq : RecoverCall(id)

SpecRecover == Init /\ [][RecoverNext]_vars

\* C5: after _recover_from_violation(violator) the ROB and the LSQ hold no
\* entry with sequence number >= violator.seq_num, still hold every entry
\* with a smaller one, and pc is violator.pc.
C5_RecoverSquashes ==
  [][last'.op = "recover" =>
       LET v == heap[last'.id] IN
       /\ \A i \in 0..(pipe.rob.capacity - 1) :
            /\ pipe'.rob.entries[i] # 0 =>
                  heap'[pipe'.rob.entries[i]].seq_num < v.seq_num
            /\ (pipe.rob.entries[i] # 0 /\
                heap[pipe.rob.entries[i]].seq_num < v.seq_num) =>
                  pipe'.rob.entries[i] = pipe.rob.entries[i]
       /\ \A i \in 0..(pipe.lsq.capacity - 1) :
            /\ pipe'.lsq.entries[i] # NoEntry =>
                  pipe'.lsq.entries[i].seq_num < v.seq_num
            /\ (pipe.lsq.entries[i] # NoEntry /\
                pipe.lsq.entries[i].seq_num < v.seq_num) =>
                  pipe'.lsq.entries[i] = pipe.lsq.entries[i]
       /\ pipe'.pc = v.pc]_vars

----------------------------------------------------------------------------
(* The pipeline driven by cycle_step over the caller's instruction stream, *)
(* with execute_instruction called by the caller between ticks.            *)

RECURSIVE Streams(_)
Streams(n) ==
  IF n = 0 THEN { <<>> }
  ELSE Streams(n - 1) \cup
       { Append(s, Instruction(t)) :
           s \in { x \in Streams(n - 1) : Len(x) = n - 1 }, t \in InstrPool }

TickInit ==
  /\ pipe = Pipeline(RobCap, LsqCap)
  /\ heap \in Streams(MaxStream)
  /\ stream = [i \in 1..Len(heap) |-> i]
  /\ sq = LoadStoreQueue(LsqCap)
  /\ sr = ReorderBuffer(RobCap)
  /\ sp = StoreSetPredictor(SsitSize, MaxStoreSets)
  /\ simp = SimplePredictor(TableSize)
  /\ MlpInit
  /\ SyncInit
  /\ last = NoOp

Tick ==
  /\ pipe.cycle < MaxCycle
  /\ \E o \in CycleStep(pipe, heap, stream) :
        /\ pipe' = o.pl
        /\ heap' = o.h
        /\ stream' = o.stream
        /\ last' = [op |-> "tick", id |-> 0, ret |-> o.ret]
  /\ UNCHANGED <<sq, sr, sp, simp, mlpVars, syncVars>>

TickNext ==
  \/ Tick
  \/ \E id \in 1..MaxStream : Execute(id)

SpecTick == TickInit /\ [][TickNext]_vars

\* execute_instruction has been tried on instruction id: an ALU operation is
\* executed, a load or a store has its address computed.
Attempted(h, id) ==
  \/ h[id].executed
  \/ h[id].instr_type \in {LOAD, STORE} /\ h[id].address # None

\* C9: a tick adds one to the cycle counter, retires at most one
\* instruction, gives every issued, unexecuted instruction an Execute
\* attempt, and takes at most one instruction from the stream.
C9_TickRunsThreeStages ==
  [][last'.op = "tick" =>
       /\ pipe'.cycle = pipe.cycle + 1
       /\ pipe'.instructions_committed <= pipe.instructions_committed + 1
       /\ Len(stream') >= Len(stream) - 1
       /\ \A i \in 1..Len(heap) :
            (heap[i].issued /\ ~heap[i].executed) => Attempted(heap', i)]_vars

----------------------------------------------------------------------------
(* The LSQ entry of a retired instruction *)

\* C11: when commit_instruction retires a load or a store, that
\* instruction's LSQ slot is free afterwards: the LSQ holds one entry less
\* and its head has advanced by one.
C11_CommitFreesLsqEntry ==
  [][(/\ last'.op = "commit"
      /\ last'.ret # 0
      /\ heap[last'.ret].lsq_idx # None) =>
       /\ pipe'.lsq.size = pipe.lsq.size - 1
       /\ pipe'.lsq.head = (pipe.lsq.head + 1) % pipe.lsq.capacity
       /\ pipe'.lsq.entries[heap[last'.ret].lsq_idx] = NoEntry]_vars

----------------------------------------------------------------------------
(* A LoadStoreQueue of DepCap slots driven through allocate,               *)
(* update_address, update_data, commit_head and check_dependency.  `last`  *)
(* is the latest check_dependency call on the queue as it stands: the      *)
(* index asked about and has_conflict (1 or 0); any call that changes the  *)
(* queue resets it.                                                        *)

DepCap == 3

ATOMIC == "ATOMIC"

\* The (op_type, size) pairs and the addresses the callers use.
DepKinds == { <<LOAD, 2>>, <<LOAD, 4>>, <<STORE, 2>>, <<STORE, 4>>, <<ATOMIC, 4>> }

DepAddrs == {0, 2}

DepInit ==
  /\ pipe = Pipeline(RobCap, LsqCap)
  /\ heap = <<>>
  /\ stream = <<>>
  /\ sq = LoadStoreQueue(DepCap)
  /\ sr = ReorderBuffer(RobCap)
  /\ sp = StoreSetPredictor(SsitSize, MaxStoreSets)
  /\ simp = SimplePredictor(TableSize)
  /\ MlpInit
  /\ SyncInit
  /\ last = NoOp

IsResolvedLoad(l, idx) ==
  /\ l.entries[idx] # NoEntry
  /\ l.entries[idx].op_type = LOAD
  /\ l.entries[idx].address_valid

\* lsq.allocate(0, 0, op_type, size)
DqAllocate(kind) ==
  /\ ~LsqIsFull(sq)
  /\ sq' = LsqAllocate(sq, 0, 0, kind[1], kind[2]).q
  /\ last' = NoOp
  /\ UNCHANGED <<pipe, heap, stream, sr, sp, simp, mlpVars, syncVars>>

\* lsq.update_address(idx, address) on an entry whose address is not known
DqUpdateAddress(idx, address) ==
  /\ LsqSlotHeld(sq, idx)
  /\ ~sq.entries[idx].address_valid
  /\ sq' = LsqUpdateAddress(sq, idx, address)
  /\ last' = NoOp
  /\ UNCHANGED <<pipe, heap, stream, sr, sp, simp, mlpVars, syncVars>>

\* lsq.update_data(idx, idx + 1) on a store whose data is not known
DqUpdateData(idx) ==
  /\ LsqSlotHeld(sq, idx)
  /\ sq.entries[idx].op_type = STORE
  /\ ~sq.entries[idx].data_valid
  /\ sq' = LsqUpdateData(sq, idx, idx + 1)
  /\ last' = NoOp
  /\ UNCHANGED <<pipe, heap, stream, sr, sp, simp, mlpVars, syncVars>>

\* lsq.commit_head()
DqCommitHead ==
  /\ ~LsqIsEmpty(sq)
  /\ sq' = LsqCommitHead(sq).q
  /\ last' = NoOp
  /\ UNCHANGED <<pipe, heap, stream, sr, sp, simp, mlpVars, syncVars>>

\* lsq.check_dependency(load_idx) on a load whose address is known
DqCheck(load_idx) ==
  /\ IsResolvedLoad(sq, load_idx)
  /\ last' = [op |-> "check", id |-> load_idx,
              ret |-> IF CheckDependency(sq, load_idx).has_conflict THEN 1 ELSE 0]
  /\ UNCHANGED <<pipe, heap, stream, sq, sr, sp, simp, mlpVars, syncVars>>

DepNext ==
  \/ \E kind \in DepKinds : DqAllocate(kind)
  \/ \E idx \in 0..(DepCap - 1), address \in DepAddrs : DqUpdateAddress(idx, address)
  \/ \E idx \in 0..(DepCap - 1) : DqUpdateData(idx)
  \/ DqCommitHead
  \/ \E idx \in 0..(DepCap - 1) : DqCheck(idx)

SpecDep == DepInit /\ [][DepNext]_vars

\* The slots from head (inclusive) to idx (exclusive), in ring order.
Between(l, idx) ==
  { (l.head + k) % l.capacity :
      k \in 0..(((idx - l.head + l.capacity) % l.capacity) - 1) }

\* The distance of slot j from head.
Age(l, j) == (j - l.head + l.capacity) % l.capacity

\* Slot j holds a Store or Atomic whose address is unknown or whose bytes
\* meet the bytes of the load in slot idx.
Conflicting(l, j, idx) ==
  /\ l.entries[j] # NoEntry
  /\ l.entries[j].op_type \in {STORE, ATOMIC}
  /\ \/ ~l.entries[j].address_valid
     \/ Bytes(l.entries[j].address, l.entries[j].size)
          \cap Bytes(l.entries[idx].address, l.entries[idx].size) # {}

\* C12: check_dependency on a load whose address is known reports a
\* conflict exactly when a Store or Atomic between head (inclusive) and the
\* load (exclusive) has an unknown address or bytes that overlap the load's.
C12_ConflictIffEarlierStore ==
  (last.op = "check" /\ IsResolvedLoad(sq, last.id)) =>
     (last.ret = 1 <=> \E j \in Between(sq, last.id) : Conflicting(sq, j, last.id))

\* C12 witness: check_dependency reported no conflict for a load that has an
\* earlier store with disjoint bytes, an earlier load with the same bytes
\* and a later store of unknown address.
C12_Witness ==
  /\ last.op = "check" /\ last.ret = 0
  /\ IsResolvedLoad(sq, last.id)
  /\ sq.size = DepCap
  /\ last.id # sq.head
  /\ \E j \in Between(sq, last.id) :
        /\ sq.entries[j].op_type = STORE
        /\ sq.entries[j].address_valid
  /\ \E j \in (0..(DepCap - 1)) \ (Between(sq, last.id) \cup {last.id}) :
        /\ sq.entries[j].op_type = STORE
        /\ ~sq.entries[j].address_valid

\* The conflicting earlier stores of the load in slot idx, and the youngest.
Conflicts(l, idx) == { j \in Between(l, idx) : Conflicting(l, j, idx) }

NewestConflict(l, idx) ==
  CHOOSE j \in Conflicts(l, idx) : \A k \in Conflicts(l, idx) : Age(l, k) <= Age(l, j)

\* The store in slot j can supply the whole load in slot idx.
Covers(l, j, idx) ==
  /\ l.entries[j].address_valid
  /\ l.entries[j].address = l.entries[idx].address
  /\ l.entries[j].size >= l.entries[idx].size
  /\ l.entries[j].data_valid

\* C13: check_dependency names a forwarding source exactly when the youngest
\* conflicting earlier store has the load's base address, at least the
\* load's size and valid data; the source is that store and the data its
\* data.  Otherwise it names no source and no data.
C13_ForwardFromNewestConflict ==
  (last.op = "check" /\ IsResolvedLoad(sq, last.id)) =>
     LET dep == CheckDependency(sq, last.id) IN
     IF /\ Conflicts(sq, last.id) # {}
        /\ Covers(sq, NewestConflict(sq, last.id), last.id)
     THEN /\ dep.fwd_idx = NewestConflict(sq, last.id)
          /\ dep.fwd_data = sq.entries[NewestConflict(sq, last.id)].data
     ELSE /\ dep.fwd_idx = None
          /\ dep.fwd_data = None

\* C13 witness: check_dependency forwards to a load from a covering store
\* although a younger resolved store with disjoint bytes lies between them.
C13_Witness ==
  /\ last.op = "check"
  /\ IsResolvedLoad(sq, last.id)
  /\ CheckDependency(sq, last.id).fwd_idx # None
  /\ \E j \in Between(sq, last.id) :
        /\ Age(sq, j) > Age(sq, CheckDependency(sq, last.id).fwd_idx)
        /\ sq.entries[j].op_type = STORE
        /\ sq.entries[j].address_valid
        /\ ~Conflicting(sq, j, last.id)

----------------------------------------------------------------------------
(* A StoreSetPredictor (sp) and a SimplePredictor (simp) driven through   *)
(* their own methods.  The two objects share no state, so a run drives    *)
(* one of them.  `last` is the latest call: its name and, for            *)
(* predict_load and should_speculate, the PC asked about and the answer.  *)

\* The calls counted by the statistics of one predictor.
MaxCalls == 4

\* The PCs of the loads and of the stores the callers report.
PredLoadPCs == {0, 8, 12}

PredStorePCs == {4, 16, 24}

\* The sequence numbers of the stores the callers register.
PredSeqs == {1, 2}

PredInit ==
  /\ pipe = Pipeline(RobCap, LsqCap)
  /\ heap = <<>>
  /\ stream = <<>>
  /\ sq = LoadStoreQueue(LsqCap)
  /\ sr = ReorderBuffer(RobCap)
  /\ sp = [StoreSetPredictor(SsitSize, MaxStoreSets) EXCEPT
             !.confidence = [c \in PredLoadPCs \cup PredStorePCs |-> 2]]
  /\ simp = SimplePredictor(TableSize)
  /\ MlpInit
  /\ SyncInit
  /\ last = NoOp

SpRun == simp = SimplePredictor(TableSize)

SpCalls == sp.predictions + sp.correct_predictions + sp.violations

SimpCalls == simp.predictions + simp.violations

SimpRun == sp.predictions = 0 /\ sp.violations = 0 /\ sp.correct_predictions = 0
           /\ \A k \in DOMAIN sp.lfst : sp.lfst[k] = None

\* predictor.predict_load(load_pc)
SpPredictLoad(load_pc) ==
  /\ SpRun
  /\ SpCalls < MaxCalls
  /\ LET r == PredictLoad(sp, load_pc)
     IN  /\ sp' = r.p
         /\ last' = [op |-> "predict", id |-> load_pc,
                     ret |-> <<r.can_speculate, r.wait_seq>>]
  /\ UNCHANGED <<pipe, heap, stream, sq, sr, simp, mlpVars, syncVars>>

\* predictor.register_store(store_pc, seq_num)
SpRegisterStore(store_pc, seq_num) ==
  /\ SpRun
  /\ sp' = RegisterStore(sp, store_pc, seq_num)
  /\ last' = [op |-> "register", id |-> 0, ret |-> 0]
  /\ UNCHANGED <<pipe, heap, stream, sq, sr, simp, mlpVars, syncVars>>

\* predictor.clear_store(store_pc)
SpClearStore(store_pc) ==
  /\ SpRun
  /\ sp' = ClearStore(sp, store_pc)
  /\ last' = [op |-> "clear", id |-> 0, ret |-> 0]
  /\ UNCHANGED <<pipe, heap, stream, sq, sr, simp, mlpVars, syncVars>>

\* predictor.report_violation(load_pc, store_pc)
SpReportViolation(load_pc, store_pc) ==
  /\ SpRun
  /\ SpCalls < MaxCalls
  /\ sp' \in ReportViolation(sp, load_pc, store_pc)
  /\ last' = [op |-> "violation", id |-> 0, ret |-> 0]
  /\ UNCHANGED <<pipe, heap, stream, sq, sr, simp, mlpVars, syncVars>>

\* predictor.report_correct_speculation(load_pc)
SpReportCorrectSpeculation(load_pc) ==
  /\ SpRun
  /\ SpCalls < MaxCalls
  /\ sp' = ReportCorrectSpeculation(sp, load_pc)
  /\ last' = [op |-> "correct", id |-> 0, ret |-> 0]
  /\ UNCHANGED <<pipe, heap, stream, sq, sr, simp, mlpVars, syncVars>>

\* simple.should_speculate(load_pc)
SimpShouldSpeculate(load_pc) ==
  /\ SimpRun
  /\ SimpCalls < MaxCalls
  /\ LET r == ShouldSpeculate(simp, load_pc)
     IN  /\ simp' = r.s
         /\ last' = [op |-> "should_speculate", id |-> load_pc,
                     ret |-> IF r.ret THEN 1 ELSE 0]
  /\ UNCHANGED <<pipe, heap, stream, sq, sr, sp, mlpVars, syncVars>>

\* simple.report_violation(load_pc)
SimpReportViolation(load_pc) ==
  /\ SimpRun
  /\ SimpCalls < MaxCalls
  /\ simp' = SimpleReportViolation(simp, load_pc)
  /\ last' = [op |-> "simple_violation", id |-> 0, ret |-> 0]
  /\ UNCHANGED <<pipe, heap, stream, sq, sr, sp, mlpVars, syncVars>>

\* simple.report_correct_speculation(load_pc)
SimpReportCorrectSpeculation(load_pc) ==
  /\ SimpRun
  /\ simp' = SimpleReportCorrectSpeculation(simp, load_pc)
  /\ last' = [op |-> "simple_correct", id |-> 0, ret |-> 0]
  /\ UNCHANGED <<pipe, heap, stream, sq, sr, sp, mlpVars, syncVars>>

PredNext ==
  \/ \E pc \in PredLoadPCs : SpPredictLoad(pc)
  \/ \E pc \in PredStorePCs, n \in PredSeqs : SpRegisterStore(pc, n)
  \/ \E pc \in PredStorePCs : SpClearStore(pc)
  \/ \E l \in PredLoadPCs, s \in PredStorePCs : SpReportViolation(l, s)
  \/ \E pc \in PredLoadPCs : SpReportCorrectSpeculation(pc)
  \/ \E pc \in PredLoadPCs : SimpShouldSpeculate(pc)
  \/ \E pc \in PredLoadPCs : SimpReportViolation(pc)
  \/ \E pc \in PredLoadPCs : SimpReportCorrectSpeculation(pc)

SpecPred == PredInit /\ [][PredNext]_vars

\* The in-flight store the LFST records for the set of pc: its sequence
\* number, or None when pc has no set or the set has no LFST entry.
InFlightStore(p, pc) ==
  IF p.ssit[GetSsitIndex(p, pc)] = None
  THEN None
  ELSE p.lfst[p.ssit[GetSsitIndex(p, pc)]]

CanObtainSet(p, l, s) ==
  \/ p.ssit[GetSsitIndex(p, l)] # None
  \/ p.ssit[GetSsitIndex(p, s)] # None
  \/ p.free_store_sets # {}
  \/ EvictableSets(p) # {}

\* What report_violation(l, s) is to do to the SSIT and the free pool, p
\* before and q after; evicted is the set of ids whose SSIT entries it may
\* remove to make room.
Unioned(p, q, l, s, evicted) ==
  LET li == GetSsitIndex(p, l)
      si == GetSsitIndex(p, s)
      ls == p.ssit[li]
      ss == p.ssit[si]
  IN  /\ q.ssit[li] = q.ssit[si]
      /\ q.ssit[li] # None
      /\ (ls = None /\ ss = None) =>
            /\ \A i \in DOMAIN q.ssit : q.ssit[i] = q.ssit[li] => i \in {li, si}
            /\ \A i \in (DOMAIN q.ssit) \ {li, si} :
                  q.ssit[i] = IF p.ssit[i] \in evicted THEN None ELSE p.ssit[i]
      /\ (ls = None /\ ss # None) => q.ssit = [p.ssit EXCEPT ![li] = ss]
      /\ (ls # None /\ ss = None) => q.ssit = [p.ssit EXCEPT ![si] = ls]
      /\ (ls # None /\ ss = ls) => q.ssit = p.ssit
      /\ (ls # None /\ ss # None /\ ss # ls) =>
            /\ q.ssit = [i \in DOMAIN p.ssit |->
                           IF p.ssit[i] = ss THEN ls ELSE p.ssit[i]]
            /\ ss \in q.free_store_sets

\* C15 as claimed: where a set can be obtained, report_violation(l, s) puts
\* both PCs in one set by the four rules and leaves the SSIT entries of
\* every unrelated set as they were.
C15_ViolationUnionsSets ==
  \A l \in PredLoadPCs, s \in PredStorePCs :
     CanObtainSet(sp, l, s) =>
        \A q \in ReportViolation(sp, l, s) : Unioned(sp, q, l, s, {})

\* C15 amended: as claimed, except that when neither PC had a set and no id
\* is free, the set evicted to make room (an id absent from the LFST) loses
\* all its SSIT entries.
C15_ViolationUnionsOrEvicts ==
  \A l \in PredLoadPCs, s \in PredStorePCs :
     CanObtainSet(sp, l, s) =>
        \A q \in ReportViolation(sp, l, s) :
           Unioned(sp, q, l, s,
                   IF sp.free_store_sets = {}
                   THEN { q.ssit[GetSsitIndex(sp, l)] } \cap EvictableSets(sp)
                   ELSE {})

\* C15 witness: report_violation has just bound a pair to a set it made room
\* for by eviction: no id is free, and a load that was reported before has
\* lost its set.
C15_Witness ==
  /\ last.op = "violation"
  /\ sp.violations = 3
  /\ sp.free_store_sets = {}
  /\ \A k \in DOMAIN sp.lfst : sp.lfst[k] = None
  /\ \E l \in PredLoadPCs :
        sp.confidence[l] < 2 /\ sp.ssit[GetSsitIndex(sp, l)] = None
  /\ \E l \in PredLoadPCs, s \in PredStorePCs :
        /\ sp.ssit[GetSsitIndex(sp, l)] # None
        /\ sp.ssit[GetSsitIndex(sp, l)] = sp.ssit[GetSsitIndex(sp, s)]

\* predict_load(l) after report_violation(l, s) and register_store(s, n) on
\* predictor p answers (false, n), whichever set report_violation popped.
LearnsToWait(p, l, s, n) ==
  \A q \in ReportViolation(p, l, s) :
     LET r == PredictLoad(RegisterStore(q, s, n), l) IN
     ~r.can_speculate /\ r.wait_seq = n

C17_RegisterThenClearKeepsLfst ==
  \A p \in PredStorePCs, n \in PredSeqs :
     ClearStore(RegisterStore(sp, p, n), p).lfst = sp.lfst

\* C18: in every reachable StoreSetPredictor state every set id that is a key
\* of the LFST is the value of at least one SSIT entry.
C18_LfstKeysHaveSsitEntry ==
  \A k \in DOMAIN sp.lfst :
     sp.lfst[k] # None => \E i \in DOMAIN sp.ssit : sp.ssit[i] = k

\* The stores in flight whose PC maps to set id k: issued, in the ROB, not
\* committed.
InFlightStoresOf(q, h, k) ==
  { j \in Stores(h) :
      /\ h[j].issued
      /\ InRob(q.rob, j)
      /\ ~h[j].committed
      /\ q.predictor.ssit[GetSsitIndex(q.predictor, h[j].pc)] = k }

\* C19: in every reachable Pipeline state each LFST entry holds the sequence
\* number of the youngest store in flight whose PC maps to that set id.
C19_LfstIsYoungestInFlightStore ==
  \A k \in DOMAIN pipe.predictor.lfst :
     pipe.predictor.lfst[k] # None =>
        /\ \E j \in InFlightStoresOf(pipe, heap, k) :
              heap[j].seq_num = pipe.predictor.lfst[k]
        /\ \A j \in InFlightStoresOf(pipe, heap, k) :
              heap[j].seq_num <= pipe.predictor.lfst[k]

\* A 2-bit saturating counter one step down and one step up.
Down(c) == IF c > 0 THEN c - 1 ELSE 0

Up(c) == IF c < 3 THEN c + 1 ELSE 3

\* C20: every confidence[pc] of the StoreSetPredictor and every counter of the
\* SimplePredictor is in 0..3; report_violation takes the load's counter one
\* down and leaves 0 at 0, report_correct_speculation takes it one up and
\* leaves 3 at 3, and no other operation of either predictor changes a
\* counter.
C20_SaturatingCounters ==
  /\ \A c \in DOMAIN sp.confidence : sp.confidence[c] \in 0..3
  /\ \A i \in DOMAIN simp.counters : simp.counters[i] \in 0..3
  /\ \A l \in PredLoadPCs :
       /\ \A s \in PredStorePCs : \A q \in ReportViolation(sp, l, s) :
             q.confidence = [sp.confidence EXCEPT ![l] = Down(@)]
       /\ ReportCorrectSpeculation(sp, l).confidence =
             [sp.confidence EXCEPT ![l] = Up(@)]
       /\ PredictLoad(sp, l).p.confidence = sp.confidence
       /\ SimpleReportViolation(simp, l).counters =
             [simp.counters EXCEPT ![GetIndex(simp, l)] = Down(@)]
       /\ SimpleReportCorrectSpeculation(simp, l).counters =
             [simp.counters EXCEPT ![GetIndex(simp, l)] = Up(@)]
       /\ ShouldSpeculate(simp, l).s.counters = simp.counters
  /\ \A s \in PredStorePCs :
       /\ \A n \in PredSeqs : RegisterStore(sp, s, n).confidence = sp.confidence
       /\ ClearStore(sp, s).confidence = sp.confidence

\* C20 witness: four violations of one load were reported; its confidence
\* went 2, 1, 0 and stayed at 0.
C20_Witness ==
  /\ last.op = "violation"
  /\ sp.violations = 4
  /\ \E l \in PredLoadPCs :
       /\ sp.confidence[l] = 0
       /\ \A c \in DOMAIN sp.confidence \ {l} : sp.confidence[c] = 2

\* All the PCs reported to the predictor, in either role.
PredPCs == PredLoadPCs \cup PredStorePCs

\* The partition of the bound SSIT indices into store sets.
SsitPartition(p) ==
  { { i \in DOMAIN p.ssit : p.ssit[i] = k } : k \in 0..(p.max_store_sets - 1) }
     \ { {} }

\* C21: from every reachable predictor state and for all PCs a, b, a second
\* report_violation(a, b) leaves the SSIT of the first, and
\* report_violation(a, b) and report_violation(b, a) leave the same partition
\* of SSIT indices into store sets.
C21_MergeIdempotentSymmetric ==
  \A a \in PredPCs, b \in PredPCs :
     \A q1 \in ReportViolation(sp, a, b) :
        /\ \A q2 \in ReportViolation(q1, a, b) : q2.ssit = q1.ssit
        /\ \A q3 \in ReportViolation(sp, b, a) :
              SsitPartition(q3) = SsitPartition(q1)

\* C21 witness: a report_violation has merged two store sets (the freed id
\* still has its LFST entry) and every bound SSIT index is in one set of at
\* least three indices.
C21_Witness ==
  /\ last.op = "violation"
  /\ \E k \in sp.free_store_sets : sp.lfst[k] # None
  /\ Cardinality(SsitPartition(sp)) = 1
  /\ \E S \in SsitPartition(sp) : Cardinality(S) >= 3

\* report_violation(l, s) on p needs a new set and the free pool is empty.
NeedsSetPoolEmpty(p, l, s) ==
  /\ p.ssit[GetSsitIndex(p, l)] = None
  /\ p.ssit[GetSsitIndex(p, s)] = None
  /\ p.free_store_sets = {}

\* The SSIT of p after set id k is evicted and bound to the indices of l, s.
EvictedAndBound(p, k, l, s) ==
  [i \in DOMAIN p.ssit |->
     IF i \in {GetSsitIndex(p, l), GetSsitIndex(p, s)} THEN k
     ELSE IF p.ssit[i] = k THEN None
     ELSE p.ssit[i]]

\* C22: when report_violation needs a new set, the free pool is empty and
\* every id has an LFST entry, the call leaves SSIT and LFST unchanged and
\* still decrements the load's confidence; when some id has no LFST entry such
\* an id is evicted and bound to exactly the two reported PCs; and no call
\* removes the SSIT entries of a set that has an LFST entry.
C22_ExhaustionDegradesGracefully ==
  \A l \in PredPCs, s \in PredPCs :
     /\ ReportViolation(sp, l, s) # {}
     /\ \A q \in ReportViolation(sp, l, s) :
          /\ NeedsSetPoolEmpty(sp, l, s) =>
               IF \A k \in DOMAIN sp.lfst : sp.lfst[k] # None
               THEN /\ q.ssit = sp.ssit
                    /\ q.lfst = sp.lfst
                    /\ q.confidence = [sp.confidence EXCEPT ![l] = Down(@)]
               ELSE /\ \E k \in DOMAIN sp.lfst :
                         /\ sp.lfst[k] = None
                         /\ q.ssit = EvictedAndBound(sp, k, l, s)
                    /\ q.lfst = sp.lfst
          /\ \A i \in DOMAIN sp.ssit :
               (sp.ssit[i] # None /\ sp.lfst[sp.ssit[i]] # None) =>
                  q.ssit[i] # None

\* C22 witness: the third report_violation found no set for load 12: both
\* ids are bound and in the LFST, the load's SSIT entry is still empty and
\* its confidence went down.
C22_Witness ==
  /\ last.op = "violation"
  /\ sp.violations = 3
  /\ sp.correct_predictions = 0
  /\ sp.free_store_sets = {}
  /\ \A k \in DOMAIN sp.lfst : sp.lfst[k] # None
  /\ sp.ssit[GetSsitIndex(sp, 12)] = None
  /\ sp.confidence[12] = 1

\* C23: register_store(pc, seq) on a PC whose SSIT entry is empty changes
\* nothing of the predictor; on a PC that maps to set id k it sets
\* LFST[k] = seq and changes nothing else.
C23_RegisterStoreFrame ==
  \A pc \in PredPCs, seq \in PredSeqs :
     LET k == sp.ssit[GetSsitIndex(sp, pc)] IN
     RegisterStore(sp, pc, seq) =
        IF k = None THEN sp ELSE [sp EXCEPT !.lfst[k] = seq]

\* C23 witness: a register_store has written an LFST entry, and another
\* store PC still has no set.
C23_Witness ==
  /\ last.op = "register"
  /\ \E k \in DOMAIN sp.lfst : sp.lfst[k] # None
  /\ \E pc \in PredStorePCs : sp.ssit[GetSsitIndex(sp, pc)] = None

----------------------------------------------------------------------------
(* The MSHR file driven through allocate, complete and free.  The driver   *)
(* numbers its requests in order and passes the count of the requests so   *)
(* far as the cycle.                                                       *)

MshrAddrs == {0, 16, 64, 128}

\* <<is_store, is_prefetch>> of a demand load, a store and a prefetch.
MshrKinds == {<<FALSE, FALSE>>, <<TRUE, FALSE>>, <<FALSE, TRUE>>}

MshrCalls == mshr.total_misses + mshr.merged_requests

MAllocate(address, is_store, is_prefetch) ==
  /\ MshrCalls < MaxMshrCalls
  /\ LET o == MshrAllocate(mshr, address, MshrCalls + 1, is_store, is_prefetch,
                           MshrCalls) IN
     /\ mshr' = o.m
     /\ last' = [op |-> "mshr_allocate", id |-> 0, ret |-> o.ret]
  /\ UNCHANGED <<pipe, heap, stream, sq, sr, sp, simp, banks, now, syncVars>>

MComplete(idx) ==
  /\ mshr' = MshrComplete(mshr, idx, MshrCalls).m
  /\ last' = [op |-> "mshr_complete", id |-> 0, ret |-> 0]
  /\ UNCHANGED <<pipe, heap, stream, sq, sr, sp, simp, banks, now, syncVars>>

MFree(idx) ==
  /\ mshr' = MshrFree(mshr, idx)
  /\ last' = [op |-> "mshr_free", id |-> 0, ret |-> 0]
  /\ UNCHANGED <<pipe, heap, stream, sq, sr, sp, simp, banks, now, syncVars>>

MshrNext ==
  \/ \E address \in MshrAddrs, kind \in MshrKinds :
        MAllocate(address, kind[1], kind[2])
  \/ \E idx \in 0..MshrEntries : MComplete(idx)
  \/ \E idx \in 0..MshrEntries : MFree(idx)

SpecMshr == Init /\ [][MshrNext]_vars

\* The occupied slots of the file.
Occupied(m) == { i \in DOMAIN m.entries : m.entries[i] # NoMshr }

\* C24: in every reachable MSHRFile state no two occupied slots have the same
\* line address.
C24_OneEntryPerLine ==
  \A i \in Occupied(mshr), j \in Occupied(mshr) :
     i # j => mshr.entries[i].line_address # mshr.entries[j].line_address

\* C24 witness: every slot is occupied, one of them by a completed entry, and
\* the last allocate was answered with the slot of an entry already there.
C24_Witness ==
  /\ last.op = "mshr_allocate"
  /\ last.ret # None
  /\ mshr.merged_requests >= 1
  /\ Occupied(mshr) = DOMAIN mshr.entries
  /\ \E i \in Occupied(mshr) : mshr.entries[i].state = COMPLETED

\* The occupied slots that hold the line of address in one of the states.
SameLine(m, address, states) ==
  { i \in Occupied(m) :
      /\ m.entries[i].line_address = GetLineAddress(m, address)
      /\ m.entries[i].state \in states }

\* Outcome r of allocate(address, seq_num, is_store, ...) on m, when the
\* entries open to a merge are those of the slots hits: a merge into one of
\* them, or else a new pending entry in a free slot, or else Full.
AllocatedAsSpecified(m, r, address, seq_num, is_store, hits) ==
  IF hits # {}
  THEN /\ r.ret \in hits
       /\ r.m = [m EXCEPT !.entries[r.ret] = AddWaiter(@, seq_num, is_store),
                          !.merged_requests = @ + 1]
  ELSE IF Occupied(m) # DOMAIN m.entries
  THEN /\ r.ret \in DOMAIN m.entries \ Occupied(m)
       /\ r.m.entries[r.ret].state = PENDING
       /\ r.m.entries[r.ret].line_address = GetLineAddress(m, address)
       /\ r.m.entries[r.ret].waiting_loads = IF is_store THEN <<>> ELSE <<seq_num>>
       /\ r.m.entries[r.ret].waiting_stores = IF is_store THEN <<seq_num>> ELSE <<>>
       /\ \A i \in DOMAIN m.entries \ {r.ret} : r.m.entries[i] = m.entries[i]
       /\ r.m.total_misses = m.total_misses + 1
       /\ r.m.merged_requests = m.merged_requests
       /\ r.m.concurrent_misses_peak =
            IF m.concurrent_misses_peak >= Cardinality(Occupied(r.m))
            THEN m.concurrent_misses_peak ELSE Cardinality(Occupied(r.m))
  ELSE r.ret = None /\ r.m = m

\* C25 as claimed: allocate merges exactly when an entry of the same line is
\* Pending; otherwise it occupies a free slot or returns Full.
C25_MergesIffPending ==
  \A address \in MshrAddrs, kind \in MshrKinds, seq_num \in 1..MaxMshrCalls :
     AllocatedAsSpecified(mshr,
        MshrAllocate(mshr, address, seq_num, kind[1], kind[2], 0),
        address, seq_num, kind[1], SameLine(mshr, address, {PENDING}))

\* C25 amended: allocate merges exactly when a slot holds an entry of the
\* same line, Pending or Completed; otherwise it occupies a free slot or
\* returns Full.
C25_MergesIffTracked ==
  \A address \in MshrAddrs, kind \in MshrKinds, seq_num \in 1..MaxMshrCalls :
     AllocatedAsSpecified(mshr,
        MshrAllocate(mshr, address, seq_num, kind[1], kind[2], 0),
        address, seq_num, kind[1], SameLine(mshr, address, {PENDING, COMPLETED}))

\* The waiters of an entry, loads then stores.
Waiters(e) == e.waiting_loads \o e.waiting_stores

\* C25 witness: the last allocate merged its request into a completed entry,
\* and the other slot is occupied too.
C25_Witness ==
  /\ last.op = "mshr_allocate"
  /\ last.ret # None
  /\ mshr.entries[last.ret].state = COMPLETED
  /\ Len(Waiters(mshr.entries[last.ret])) = 2
  /\ \E i \in 1..2 : Waiters(mshr.entries[last.ret])[i] = MshrCalls
  /\ mshr.merged_requests = 1
  /\ Occupied(mshr) = DOMAIN mshr.entries

----------------------------------------------------------------------------
(* The bank arbiter driven through can_access, reserve_bank and            *)
(* update_cycle.  The driver passes its cycle, which never goes back, and  *)
(* reserves a bank again only when its last reservation has run out.       *)

\* 0x1000, 0x1040 and 0x2000 of the memory-level-parallelism scenario.
BankAddrs == {4096, 4160, 8192}

BCanAccess(address, current_cycle) ==
  /\ banks.total_accesses < MaxBankAccesses
  /\ current_cycle >= now
  /\ LET o == CanAccess(banks, address, current_cycle) IN
     /\ banks' = o.b
     /\ last' = [op |-> "can_access", id |-> address,
                 ret |-> IF o.ret THEN 1 ELSE 0]
  /\ now' = current_cycle
  /\ UNCHANGED <<pipe, heap, stream, sq, sr, sp, simp, mshr, syncVars>>

BReserveBank(address, current_cycle, latency) ==
  /\ current_cycle >= now
  /\ banks.bank_ready_cycle[GetBank(banks, address)] <= now
  /\ banks' = ReserveBank(banks, address, current_cycle, latency)
  /\ last' = [op |-> "reserve_bank", id |-> address, ret |-> latency]
  /\ now' = current_cycle
  /\ UNCHANGED <<pipe, heap, stream, sq, sr, sp, simp, mshr, syncVars>>

BUpdateCycle(current_cycle) ==
  /\ current_cycle >= now
  /\ banks' = UpdateCycle(banks, current_cycle)
  /\ last' = [op |-> "update_cycle", id |-> 0, ret |-> 0]
  /\ now' = current_cycle
  /\ UNCHANGED <<pipe, heap, stream, sq, sr, sp, simp, mshr, syncVars>>

BankNext ==
  \/ \E address \in BankAddrs, current_cycle \in 0..MaxNow :
        BCanAccess(address, current_cycle)
  \/ \E address \in BankAddrs, current_cycle \in 0..MaxNow, latency \in 0..MaxLatency :
        BReserveBank(address, current_cycle, latency)
  \/ \E current_cycle \in 0..MaxNow : BUpdateCycle(current_cycle)

SpecBank == Init /\ [][BankNext]_vars

\* C26: can_access(addr, t) returns false and counts one conflict exactly
\* when the bank of addr is busy with readyCycle > t, and returns true
\* otherwise; reserve_bank(addr, c, latency) sets that bank busy with
\* readyCycle = c + latency; update_cycle(c) clears busy for exactly the banks
\* with readyCycle <= c.  Hence a reserved bank rejects every access of a
\* cycle before its readyCycle and accepts every access from then on.
C26_BankArbitration ==
  /\ \A address \in BankAddrs, t \in 0..(MaxNow + MaxLatency) :
       LET bank == GetBank(banks, address)
           r == CanAccess(banks, address, t)
           busy == banks.bank_busy[bank] /\ banks.bank_ready_cycle[bank] > t
       IN  /\ r.ret = ~busy
           /\ r.b.bank_conflicts = banks.bank_conflicts + (IF busy THEN 1 ELSE 0)
           /\ r.b.bank_busy = banks.bank_busy
           /\ r.b.bank_ready_cycle = banks.bank_ready_cycle
           /\ t >= now => r.ret = (t >= banks.bank_ready_cycle[bank])
  /\ \A address \in BankAddrs, c \in 0..MaxNow, latency \in 0..MaxLatency :
       LET bank == GetBank(banks, address)
           q == ReserveBank(banks, address, c, latency)
       IN  /\ q.bank_busy = [banks.bank_busy EXCEPT ![bank] = TRUE]
           /\ q.bank_ready_cycle =
                [banks.bank_ready_cycle EXCEPT ![bank] = c + latency]
           /\ q.bank_conflicts = banks.bank_conflicts
  /\ \A c \in 0..MaxNow :
       LET q == UpdateCycle(banks, c) IN
       /\ \A i \in DOMAIN banks.bank_busy :
            q.bank_busy[i] = (banks.bank_busy[i] /\ banks.bank_ready_cycle[i] > c)
       /\ q.bank_ready_cycle = banks.bank_ready_cycle
       /\ q.bank_conflicts = banks.bank_conflicts

\* C26 witness: an access was rejected and counted, and the last access, to a
\* bank whose reservation has run out and was cleared, was accepted.
C26_Witness ==
  /\ last.op = "can_access"
  /\ last.ret = 1
  /\ banks.bank_conflicts = 1
  /\ banks.bank_ready_cycle[GetBank(banks, last.id)] > 0
  /\ banks.bank_ready_cycle[GetBank(banks, last.id)] <= now
  /\ ~banks.bank_busy[GetBank(banks, last.id)]

\* C27: with 4 banks and 64-byte lines 0x1000 and 0x1040 are in one bank, so
\* after reserve_bank(0x1000, cycle 0, latency 1) can_access(0x1040, 0)
\* returns false and counts a conflict, and after update_cycle(1)
\* can_access(0x1040, 1) returns true.
C27_SameBankScenario ==
  (last.op = "reserve_bank" /\ last.id = 4096 /\ last.ret = 1 /\ now = 0) =>
     LET r == CanAccess(banks, 4160, 0) IN
     /\ GetBank(banks, 4096) = GetBank(banks, 4160)
     /\ ~r.ret
     /\ r.b.bank_conflicts = banks.bank_conflicts + 1
     /\ CanAccess(UpdateCycle(r.b, 1), 4160, 1).ret

----------------------------------------------------------------------------
(* The store buffer driven through add_store, forward_to_load and          *)
(* drain_oldest.                                                           *)

SbAddrs == {0, 4}

SbData == {10, 11}

SbSizes == {2, 4}

SbSeqs == {1, 2}

SAddStore(address, data, size, seq_num) ==
  /\ Len(sb.entries) < MaxSbStores
  /\ sb' = AddStore(sb, address, data, size, seq_num)
  /\ last' = [op |-> "add_store", id |-> address, ret |-> 0]
  /\ UNCHANGED <<pipe, heap, stream, sq, sr, sp, simp, mlpVars, llsc,
                 fence, atom>>

SForwardToLoad(address, size) ==
  /\ last' = [op |-> "forward_to_load", id |-> address,
              ret |-> ForwardToLoad(sb, address, size)]
  /\ UNCHANGED <<pipe, heap, stream, sq, sr, sp, simp, mlpVars, syncVars>>

SDrainOldest ==
  /\ sb' = DrainOldest(sb).b
  /\ last' = [op |-> "drain_oldest", id |-> 0, ret |-> 0]
  /\ UNCHANGED <<pipe, heap, stream, sq, sr, sp, simp, mlpVars, llsc,
                 fence, atom>>

SbNext ==
  \/ \E address \in SbAddrs, data \in SbData, size \in SbSizes, seq_num \in SbSeqs :
        SAddStore(address, data, size, seq_num)
  \/ \E address \in SbAddrs, size \in SbSizes : SForwardToLoad(address, size)
  \/ SDrainOldest

SpecSb == Init /\ [][SbNext]_vars

\* C28: after any sequence of add_store and drain_oldest calls the buffer
\* holds no more entries than its capacity.
C28_BufferCapped == Len(sb.entries) <= sb.capacity

\* The entries of b that no newer entry of the same address follows.
NewestOfAddress(b) ==
  { i \in 1..Len(b.entries) :
      \A j \in (i + 1)..Len(b.entries) :
         b.entries[j].address # b.entries[i].address }

\* C29: add_store(a, d, s, seq) followed by forward_to_load(a, s') with
\* s' <= s returns d, as long as the entry is not drained and no newer store
\* to a has been added; forward_to_load returns None when no entry has
\* exactly address a and size >= s'.
C29_StoreBufferRoundTrip ==
  /\ \A a \in SbAddrs, d \in SbData, s \in SbSizes, seq \in SbSeqs :
       \A s2 \in SbSizes :
          s2 <= s => ForwardToLoad(AddStore(sb, a, d, s, seq), a, s2) = d
  /\ \A i \in NewestOfAddress(sb) : \A s2 \in SbSizes :
       (~sb.entries[i].drained /\ s2 <= sb.entries[i].size) =>
          ForwardToLoad(sb, sb.entries[i].address, s2) = sb.entries[i].data
  /\ \A a \in SbAddrs, s2 \in SbSizes :
       (\A i \in 1..Len(sb.entries) :
           ~(sb.entries[i].address = a /\ sb.entries[i].size >= s2)) =>
          ForwardToLoad(sb, a, s2) = None

\* C29 witness: forward_to_load returned the data of the newer of two stores
\* to its address, with a store to another address added after them.
C29_Witness ==
  /\ last.op = "forward_to_load"
  /\ \E i \in NewestOfAddress(sb) :
       /\ sb.entries[i].address = last.id
       /\ sb.entries[i].data = last.ret
       /\ i < Len(sb.entries)
       /\ \E j \in 1..(i - 1) :
            /\ sb.entries[j].address = last.id
            /\ sb.entries[j].data # last.ret

----------------------------------------------------------------------------
(* The LL/SC reservations driven through load_link, store_conditional and  *)
(* invalidate_reservation.                                                 *)

LlscSeqs == {1, 2}

LLoadLink(address, seq_num) ==
  /\ llsc' = LoadLink(llsc, address, seq_num)
  /\ last' = [op |-> "load_link", id |-> address, ret |-> seq_num]
  /\ UNCHANGED <<pipe, heap, stream, sq, sr, sp, simp, mlpVars, sb,
                 fence, atom>>

LStoreConditional(address, seq_num) ==
  /\ LET o == StoreConditional(llsc, address, seq_num) IN
     /\ llsc' = o.r
     /\ last' = [op |-> IF o.ret THEN "store_conditional_ok"
                        ELSE "store_conditional_failed",
                 id |-> address, ret |-> seq_num]
  /\ UNCHANGED <<pipe, heap, stream, sq, sr, sp, simp, mlpVars, sb,
                 fence, atom>>

LInvalidateReservation(address) ==
  /\ llsc' = InvalidateReservation(llsc, address)
  /\ last' = [op |-> "invalidate_reservation", id |-> address, ret |-> 0]
  /\ UNCHANGED <<pipe, heap, stream, sq, sr, sp, simp, mlpVars, sb,
                 fence, atom>>

LlscNext ==
  \/ \E address \in LlscAddrs, seq_num \in LlscSeqs : LLoadLink(address, seq_num)
  \/ \E address \in LlscAddrs, seq_num \in LlscSeqs :
        LStoreConditional(address, seq_num)
  \/ \E address \in LlscAddrs : LInvalidateReservation(address)

SpecLlsc == Init /\ [][LlscNext]_vars

\* C30: store_conditional(a, n) returns true iff a reservation for a exists
\* with sequence number n; a successful one removes the reservation and a
\* failing one changes nothing, so after load_link(a, n) the first
\* store_conditional(a, n) succeeds and a second fails; after
\* invalidate_reservation(a) every store_conditional on a fails; and every
\* operation on another address leaves the reservation for a as it is.
C30_ReservationProtocol ==
  \A a \in LlscAddrs, n \in LlscSeqs :
     LET r == StoreConditional(llsc, a, n)
         linked == LoadLink(llsc, a, n)
         first == StoreConditional(linked, a, n)
     IN  /\ r.ret = (llsc.reservations[a] # None /\ llsc.reservations[a] = n)
         /\ r.r = IF r.ret THEN [llsc EXCEPT !.reservations[a] = None] ELSE llsc
         /\ linked.reservations[a] = n
         /\ first.ret
         /\ ~StoreConditional(first.r, a, n).ret
         /\ \A m \in LlscSeqs :
               ~StoreConditional(InvalidateReservation(llsc, a), a, m).ret
         /\ \A b \in LlscAddrs \ {a} :
               /\ LoadLink(llsc, b, n).reservations[a] = llsc.reservations[a]
               /\ StoreConditional(llsc, b, n).r.reservations[a] = llsc.reservations[a]
               /\ InvalidateReservation(llsc, b).reservations[a] = llsc.reservations[a]

\* C30 witness: a store_conditional has just succeeded and removed its
\* reservation, and another address still holds one.
C30_Witness ==
  /\ last.op = "store_conditional_ok"
  /\ llsc.reservations[last.id] = None
  /\ \E b \in LlscAddrs \ {last.id} : llsc.reservations[b] # None

----------------------------------------------------------------------------
(* AtomicOperation driven through its constructor and methods.  The caller *)
(* marks the operation completed by assigning the attribute.               *)

AtomKinds == {"SWAP", "CAS", "FADD", "XOR"}

AtomAddrs == {0, 4}

AtomSeqs == {1, 2}

AtomValues == {0, 1, 2}

ACreate(op_type, address, seq_num) ==
  /\ atom' = AtomicOperation(op_type, address, seq_num)
  /\ last' = [op |-> "atomic", id |-> seq_num, ret |-> 0]
  /\ UNCHANGED <<pipe, heap, stream, sq, sr, sp, simp, mlpVars, sb, llsc,
                 fence>>

AExecute(memory_value, write_value, expected) ==
  /\ atom # NoAtomic
  /\ LET r == AtomicExecute(atom, memory_value, write_value, expected) IN
       /\ atom' = r.a
       /\ last' = [op |-> IF r.success THEN "execute_ok" ELSE "execute_failed",
                   id |-> atom.seq_num, ret |-> r.value]
  /\ UNCHANGED <<pipe, heap, stream, sq, sr, sp, simp, mlpVars, sb, llsc,
                 fence>>

AMarkCompleted ==
  /\ atom # NoAtomic
  /\ atom' = [atom EXCEPT !.completed = TRUE]
  /\ last' = [op |-> "atomic_completed", id |-> atom.seq_num, ret |-> 0]
  /\ UNCHANGED <<pipe, heap, stream, sq, sr, sp, simp, mlpVars, sb, llsc,
                 fence>>

ABlocksOperation(op_address, op_seq_num) ==
  /\ atom # NoAtomic
  /\ last' = [op |-> "blocks_operation", id |-> op_seq_num,
              ret |-> IF BlocksOperation(atom, op_address, op_seq_num)
                      THEN 1 ELSE 0]
  /\ UNCHANGED <<pipe, heap, stream, sq, sr, sp, simp, mlpVars, syncVars>>

AtomicNext ==
  \/ \E op_type \in AtomKinds, address \in AtomAddrs, seq_num \in AtomSeqs :
       ACreate(op_type, address, seq_num)
  \/ \E v \in AtomValues, w \in AtomValues, e \in AtomValues \cup {None} :
       AExecute(v, w, e)
  \/ AMarkCompleted
  \/ \E a \in AtomAddrs, s \in 1..3 : ABlocksOperation(a, s)

SpecAtomic == Init /\ [][AtomicNext]_vars

\* C31: for all values v, w and all expected e (None for absent), on every
\* atomic operation the pipeline can hold: a CAS returns (true, v) and sets
\* the new value to w when e = v, and returns (false, v) and does not set
\* the new value when e # v or e is absent; a Swap returns (true, v) with
\* new value w; a FADD returns (true, v) with new value v + w.  Every
\* kind returns the memory value v as its second component.
C31_AtomicResults ==
  atom # NoAtomic =>
    \A v \in AtomValues, w \in AtomValues, e \in AtomValues \cup {None} :
      LET r == AtomicExecute(atom, v, w, e) IN
        /\ r.value = v
        /\ r.a.old_value = v
        /\ atom.op_type = "CAS" /\ e = v =>
             r.success /\ r.a.new_value = w
        /\ atom.op_type = "CAS" /\ e # v =>
             ~r.success /\ r.a.new_value = atom.new_value
        /\ atom.op_type = "SWAP" => r.success /\ r.a.new_value = w
        /\ atom.op_type = "FADD" => r.success /\ r.a.new_value = v + w

\* A compare-and-swap has just failed on a fresh operation, leaving its new
\* value absent, and returned the memory value.
C31_Witness ==
  /\ atom.op_type = "CAS"
  /\ last.op = "execute_failed"
  /\ atom.old_value = last.ret
  /\ atom.expected_value \notin {None, atom.old_value}
  /\ atom.new_value = None

\* C32: an atomic operation with sequence number q and address a that has
\* been created, executed or not, and is not marked completed blocks
\* exactly the operations on a with a sequence number above q; once it
\* is marked completed it blocks nothing.
C32_InFlightAtomicExclusive ==
  atom # NoAtomic =>
    \A a \in AtomAddrs, s \in 1..3 :
      BlocksOperation(atom, a, s)
        = (~atom.completed /\ a = atom.address /\ s > atom.seq_num)

----------------------------------------------------------------------------
(* MemoryFence driven as scenario_4_memory_fences drives it: the caller    *)
(* asks can_complete and marks the fence completed when it answers True.   *)

FenceSeqs == {1, 2, 3}

\* Sequence numbers of the loads and stores asked about.
FenceOpSeqs == 1..4

FCreate(fence_type, seq_num) ==
  /\ fence' = MemoryFence(fence_type, seq_num)
  /\ last' = [op |-> "fence", id |-> seq_num, ret |-> 0]
  /\ UNCHANGED <<pipe, heap, stream, sq, sr, sp, simp, mlpVars, sb, llsc,
                 atom>>

FBlocksLoad(load_seq_num) ==
  /\ fence # NoFence
  /\ last' = [op |-> "blocks_load", id |-> load_seq_num,
              ret |-> IF BlocksLoad(fence, load_seq_num) THEN 1 ELSE 0]
  /\ UNCHANGED <<pipe, heap, stream, sq, sr, sp, simp, mlpVars, syncVars>>

FBlocksStore(store_seq_num) ==
  /\ fence # NoFence
  /\ last' = [op |-> "blocks_store", id |-> store_seq_num,
              ret |-> IF BlocksStore(fence, store_seq_num) THEN 1 ELSE 0]
  /\ UNCHANGED <<pipe, heap, stream, sq, sr, sp, simp, mlpVars, syncVars>>

FComplete(older_loads_done, older_stores_done) ==
  /\ fence # NoFence
  /\ LET ok == CanComplete(fence, older_loads_done, older_stores_done) IN
       /\ fence' = IF ok THEN [fence EXCEPT !.completed = TRUE] ELSE fence
       /\ last' = [op |-> "can_complete", id |-> fence.seq_num,
                   ret |-> IF ok THEN 1 ELSE 0]
  /\ UNCHANGED <<pipe, heap, stream, sq, sr, sp, simp, mlpVars, sb, llsc,
                 atom>>

FenceNext ==
  \/ \E fence_type \in FenceType, seq_num \in FenceSeqs :
       FCreate(fence_type, seq_num)
  \/ \E s \in FenceOpSeqs : FBlocksLoad(s)
  \/ \E s \in FenceOpSeqs : FBlocksStore(s)
  \/ \E ol \in BOOLEAN, os \in BOOLEAN : FComplete(ol, os)

SpecFence == Init /\ [][FenceNext]_vars

\* C33: while a fence with sequence number f is pending it blocks a load
\* with sequence number s iff s > f and the fence is a load or full fence,
\* and a store iff s > f and the fence is a store or full fence; once
\* can_complete has answered true and the fence is marked completed it no
\* longer blocks a younger load.
C33_FenceOrdering ==
  fence # NoFence =>
    \A s \in FenceOpSeqs :
      /\ ~fence.completed =>
           /\ BlocksLoad(fence, s)
                = (s > fence.seq_num /\ fence.fence_type \in {"LFENCE", "MFENCE"})
           /\ BlocksStore(fence, s)
                = (s > fence.seq_num /\ fence.fence_type \in {"SFENCE", "MFENCE"})
      /\ fence.completed => ~BlocksLoad(fence, s)

----------------------------------------------------------------------------
(* The statistics counters under the public operations of the Pipeline,    *)
(* the StoreSetPredictor and the MSHRFile.  The three objects are          *)
(* independent, so a run drives one of them and leaves the other two as    *)
(* constructed.                                                            *)

PipeIdle == pipe = Pipeline(RobCap, LsqCap) /\ heap = <<>>

PredIdle ==
  /\ sp = [StoreSetPredictor(SsitSize, MaxStoreSets) EXCEPT
             !.confidence = [c \in PredLoadPCs \cup PredStorePCs |-> 2]]
  /\ simp = SimplePredictor(TableSize)

MshrIdle == mshr = MSHRFile(MshrEntries, LineSize)

\* predictor.reset_stats()
SpResetStats ==
  /\ SpRun
  /\ sp' = ResetStats(sp)
  /\ last' = [op |-> "reset_stats", id |-> 0, ret |-> 0]
  /\ UNCHANGED <<pipe, heap, stream, sq, sr, simp, mlpVars, syncVars>>

\* reset_stats ends a run: the calls after it start from zeroed counters and
\* take the same steps as the calls before it.
StatsNext ==
  /\ last.op # "reset_stats"
  /\ \/ PredIdle /\ MshrIdle /\ Next
     \/ PipeIdle /\ MshrIdle /\ PredNext
     \/ PipeIdle /\ MshrIdle /\ SpResetStats
     \/ PipeIdle /\ PredIdle /\ MshrNext

SpecStats == PredInit /\ [][StatsNext]_vars

\* The statistics counters of a predictor, in a fixed order.
PredCounters(p) == <<p.predictions, p.violations, p.correct_predictions>>

\* Every counter of the next state is at least its value in this state.
CountersMonotone ==
  /\ \A i \in 1..3 :
       /\ PredCounters(sp')[i] >= PredCounters(sp)[i]
       /\ PredCounters(pipe'.predictor)[i] >= PredCounters(pipe.predictor)[i]
  /\ pipe'.speculation_violations >= pipe.speculation_violations
  /\ pipe'.forwarding_events >= pipe.forwarding_events
  /\ mshr'.merged_requests >= mshr.merged_requests
  /\ mshr'.concurrent_misses_peak >= mshr.concurrent_misses_peak

\* C34 as stated: no operation of the public interfaces of the Pipeline,
\* the StoreSetPredictor and the MSHRFile lowers predictions, violations,
\* correct predictions, forwarding events, merged requests or the peak of
\* concurrent misses.
C34_CountersNeverDecrease == [][CountersMonotone]_vars

\* C34 amended: no operation other than StoreSetPredictor.reset_stats
\* lowers one of these counters, and reset_stats sets predictions,
\* violations and correct predictions to 0.
C34_CountersDecreaseOnlyOnReset ==
  [][/\ last'.op # "reset_stats" => CountersMonotone
     /\ last'.op = "reset_stats" => PredCounters(sp') = <<0, 0, 0>>]_vars

\* The peak of concurrent misses stands above the number of entries held
\* after a free, next to a merged request.
C34_Witness ==
  /\ last.op = "mshr_free"
  /\ mshr.concurrent_misses_peak > GetActiveCount(mshr)
  /\ mshr.merged_requests > 0

----------------------------------------------------------------------------
(* _execute_load against the stores ahead of the load *)

\* A Store or Atomic between head and slot idx has a known address whose
\* bytes meet those of the load in slot idx.
ResolvedConflict(l, idx) ==
  \E j \in Between(l, idx) :
    /\ l.entries[j] # NoEntry
    /\ l.entries[j].op_type \in {STORE, ATOMIC}
    /\ l.entries[j].address_valid
    /\ Bytes(l.entries[j].address, l.entries[j].size)
         \cap Bytes(l.entries[idx].address, l.entries[idx].size) # {}

\* C35: _execute_load on an issued load for which check_dependency finds no
\* forwardable store reads the memory model's value, marks the load
\* speculative and completed and returns true whenever predict_load allows
\* speculation and no earlier store of known address overlaps the load,
\* whether or not an earlier store still has an unknown address; it
\* returns false, changing nothing of the load but its address, only when
\* the predictor says wait or such a resolved conflict exists.
C35_LoadSpeculatesPastUnresolved ==
  \A id \in 1..Len(heap) :
    (/\ heap[id].instr_type = LOAD
     /\ heap[id].issued /\ ~heap[id].executed
     /\ heap[id].lsq_idx # None) =>
      LET o   == ExecuteLoad(pipe, heap, id)
          idx == heap[id].lsq_idx
          dep == CheckDependency(o.pl.lsq, idx)
          pr  == PredictLoad(pipe.predictor, heap[id].pc)
      IN  dep.fwd_data = None =>
            IF pr.can_speculate /\ ~ResolvedConflict(o.pl.lsq, idx)
            THEN /\ o.ret
                 /\ o.h[id].speculative /\ o.h[id].completed
                 /\ o.h[id].data = MemGet(pipe.memory, o.h[id].address)
            ELSE /\ ~o.ret
                 /\ o.h = [heap EXCEPT ![id].address = o.h[id].address]

----------------------------------------------------------------------------
(* Validation of a speculative load at commit *)

\* check_dependency on the load's LSQ slot finds a forwardable store whose
\* data is not the value the load recorded.
ForwardableDiffers(pl, h, id) ==
  /\ h[id].lsq_idx # None
  /\ LET dep == CheckDependency(pl.lsq, h[id].lsq_idx) IN
       dep.fwd_data # None /\ dep.fwd_data # h[id].data

\* C36: a commit_instruction that pops a completed speculative load treats
\* it as a violation exactly when check_dependency finds a forwardable
\* store whose data differs from the load's recorded value; it then adds
\* one to speculation_violations, recovers (squashes ROB and LSQ from the
\* load and sets pc to the load's), returns nothing and leaves
\* instructions_committed alone; otherwise it adds one to the predictor's
\* correct count and to instructions_committed and returns the load.  A
\* committing store writes memory[address] = data, calls clear_store for
\* its PC and is counted as committed.
C36_CommitTimeValidation ==
  [][(last'.op = "commit" /\ last'.id # 0) =>
       LET id    == last'.id
           instr == heap[id]
           rob0  == RobCommitHead(pipe.rob, heap).r
       IN
       /\ (instr.instr_type = LOAD /\ instr.speculative) =>
            IF ForwardableDiffers(pipe, heap, id)
            THEN /\ pipe'.speculation_violations = pipe.speculation_violations + 1
                 /\ pipe'.rob = RobSquashFrom(rob0, heap', instr.seq_num)
                 /\ pipe'.lsq = LsqSquashFrom(pipe.lsq, instr.seq_num)
                 /\ pipe'.pc = instr.pc
                 /\ last'.ret = 0
                 /\ pipe'.instructions_committed = pipe.instructions_committed
            ELSE /\ pipe'.speculation_violations = pipe.speculation_violations
                 /\ pipe'.predictor.correct_predictions
                      = pipe.predictor.correct_predictions + 1
                 /\ pipe'.instructions_committed
                      = pipe.instructions_committed + 1
                 /\ last'.ret = id
       /\ instr.instr_type = STORE =>
            /\ MemGet(pipe'.memory, instr.address) = instr.data
            /\ pipe'.predictor = ClearStore(pipe.predictor, instr.pc)
            /\ pipe'.instructions_committed = pipe.instructions_committed + 1
            /\ last'.ret = id]_vars

\* A commit has just found a violation on a speculative load and returned
\* nothing.
C36_Witness ==
  /\ last.op = "commit"
  /\ last.id # 0
  /\ last.ret = 0
  /\ heap[last.id].instr_type = LOAD
  /\ heap[last.id].speculative
  /\ pipe.speculation_violations > 0

----------------------------------------------------------------------------
(* The flags of an LSQ entry *)

\* committed implies completed, completed implies address-valid, and for a
\* Store completed implies data-valid.
FlagsOrdered(e) ==
  /\ e.committed => e.completed
  /\ e.completed => e.address_valid
  /\ (e.op_type = STORE /\ e.completed) => e.data_valid

\* C37: every entry of the LSQ, every entry after a mark_completed call and
\* the entry commit_head returns have committed => completed =>
\* address-valid, and data-valid as well for a completed Store.
C37_LsqFlagImplication ==
  /\ \A i \in DOMAIN sq.entries :
       sq.entries[i] # NoEntry =>
         /\ FlagsOrdered(sq.entries[i])
         /\ FlagsOrdered(LsqMarkCompleted(sq, i).entries[i])
  /\ LsqCommitHead(sq).entry # NoEntry =>
       FlagsOrdered(LsqCommitHead(sq).entry)

----------------------------------------------------------------------------
(* Speculation under issue, execute and commit *)

\* C38: in every run of issue_instruction, execute_instruction and
\* commit_instruction calls, a load is speculative only while every Store
\* ahead of it in the LSQ has a known address that does not overlap the
\* load's, _validate_load is false for every speculative load, no commit
\* that pops an instruction returns nothing, speculation_violations stays 0
\* and the predictor is never told of a violation.
C38_ViolationUnreachable ==
  /\ pipe.speculation_violations = 0
  /\ pipe.predictor.violations = 0
  /\ (last.op = "commit" /\ last.id # 0) => last.ret = last.id
  /\ \A id \in 1..Len(heap) :
       (heap[id].instr_type = LOAD /\ heap[id].speculative) =>
         /\ heap[id].lsq_idx # None
         /\ ~ValidateLoad(pipe, heap, id)
         /\ \A j \in Between(pipe.lsq, heap[id].lsq_idx) :
              ~Conflicting(pipe.lsq, j, heap[id].lsq_idx)

\* A speculative load has just been committed behind a store that was
\* ahead of it in the LSQ and is counted as a correct speculation.
C38_Witness ==
  /\ last.op = "commit"
  /\ last.id # 0
  /\ heap[last.id].instr_type = LOAD
  /\ heap[last.id].speculative
  /\ \E j \in Between(pipe.lsq, heap[last.id].lsq_idx) :
       pipe.lsq.entries[j].op_type = STORE
  /\ pipe.predictor.correct_predictions > 0

----------------------------------------------------------------------------
(* Ring bookkeeping of the LSQ and of the ROB *)

\* held is the set of occupied slots of the ring.
RingConsistent(ring, held) ==
  /\ 0 <= ring.size /\ ring.size <= ring.capacity
  /\ ring.size = Cardinality(held)
  /\ held = { (ring.head + k) % ring.capacity : k \in 0..(ring.size - 1) }
  /\ ring.tail = (ring.head + ring.size) % ring.capacity

\* C39: after any sequence of allocate, commit_head and squash_from calls
\* the LSQ and the ROB have 0 <= size <= capacity, size equal to the number
\* of occupied slots, the occupied slots being the size consecutive slots
\* from head, and tail = (head + size) mod capacity.
C39_RingBookkeeping ==
  /\ RingConsistent(sq, { i \in DOMAIN sq.entries : sq.entries[i] # NoEntry })
  /\ RingConsistent(sr, { i \in DOMAIN sr.entries : sr.entries[i] # 0 })

----------------------------------------------------------------------------
(* Forwarding from the store buffer against the newest store *)

\* C40: whenever forward_to_load(a, size) returns data, it is the data of
\* the newest entry of the buffer with address a: no entry added later
\* than the one forwarded has address a.
C40_ForwardNeverStale ==
  \A a \in SbAddrs, size \in SbSizes :
    LET r    == ForwardToLoad(sb, a, size)
        to_a == { i \in 1..Len(sb.entries) : sb.entries[i].address = a }
    IN  r # None =>
          r = sb.entries[CHOOSE i \in to_a : \A j \in to_a : j <= i].data

====
